---- MODULE Spec2Model ----
(***************************************************************************)
(* SafeRelief authentication core: Login / lockout / MFA, the fixed-window *)
(* RateLimiter, the server-stored CSRF token table, JWT issue / verify and *)
(* the audit log.  Time is a discrete clock counted in minutes.            *)
(***************************************************************************)
EXTENDS Integers, Sequences, FiniteSets, Bags, TLC

VARIABLES
    now,          \* time.Now(), in minutes
    users,        \* the users table: id -> row
    rl,           \* AuthHandler.rateLimiter: [limit, window, requests]
    auditDB,      \* rows of audit_logs (a bag: the table has no unique key on these columns)
    auditPending, \* events handed to "go al.logToDatabase(event)" and not yet written
    reqs,         \* requests being served: slot -> handler position, locals and response
    streak,       \* history: password mismatches evaluated since the last verified match
    hist,         \* history: the calls made to RateLimiter.Allow, as <<key, time, answer>>
    csrf,         \* CSRFProtection: [tokens, nextSweep]
    csrfIssued,   \* history: how many tokens GenerateToken has drawn from crypto/rand
    csrfTrue,     \* history: token -> how often ValidateToken answered true for it
    csrfLast,     \* history: the latest ValidateToken call and its answer
    jar,          \* the token pair most recently minted (the client's cookies)
    verdict,      \* the latest token verification: who verified, which token, the outcome
    spent,        \* history: the refresh tokens RefreshToken has accepted and replaced
    mw,           \* RateLimitMiddleware: [limiter: ip -> pointer, heap: the rateLimitInfo structs]
    mwReqs,       \* the goroutines inside RateLimitMiddleware: slot -> position and locals
    mwAdmitted,   \* history: ip -> requests handed to the next handler in the current window
    mwServed,     \* history: how many requests have entered RateLimitMiddleware
    gate,         \* the latest request through a CSRF middleware and what became of it
    procLog,      \* the distinct lines logToDatabase has written with log.Printf
    call          \* the last call of a Validator function: its argument and what it returned

authVars == <<users, rl, auditDB, auditPending, reqs, streak>>
csrfVars == <<csrf, csrfIssued, csrfTrue, csrfLast>>
tokVars == <<jar, verdict, spent>>
mwVars == <<mw, mwReqs, mwAdmitted, mwServed>>
edgeVars == <<mwVars, gate, procLog, call>>
vars == <<now, authVars, hist, csrfVars, tokVars, edgeVars>>

----------------------------------------------------------------------------
(* Bounds of the exploration *)

MaxTime == 30
MaxFailed == 6
MaxLogins == 7
MaxSlots == 2
MaxConcLogins == 2
MaxGateLogins == 12
MaxCalls == 4
MaxLimit == 2
MaxWindow == 2
MaxTokens == 3
MaxMwRequests == 3

(* Program constants *)

LockThreshold == 5
LockMinutes == 15
SuspiciousWindow == 30
SuspiciousThreshold == 10
AuthRateLimit == 100
AuthRateWindow == 60
AccessTTL == 15
RefreshTTL == 10080
CsrfTTL == 15
SweepInterval == 10
MwMaxRequests == 100     \* RateLimitMiddleware(100, time.Hour)
MwWindow == 60

Slots == 1..MaxSlots

NoTime == -1        \* a NULL DATETIME / nil *time.Time
NoUser == "none"    \* sql.ErrNoRows

Principals == {"u1"}

\* "Aa1!Aa1!" and "Aa1!Aa1?": strings are sequences of code points; both
\* pass ValidatePassword and SanitizeInput leaves them as they are
PasswordOne == <<65, 97, 49, 33, 65, 97, 49, 33>>
PasswordTwo == <<65, 97, 49, 33, 65, 97, 49, 63>>
Passwords == {PasswordOne, PasswordTwo}

\* "a@b.io", the address of the registered principal; "n@b.io", which no
\* principal has; "bad", which is no address; "A@B.IO", which the collation
\* of users.email holds equal to "a@b.io"; " a@b.io", which SanitizeInput
\* turns into "a@b.io"
EmailOne == <<97, 64, 98, 46, 105, 111>>
EmailNobody == <<110, 64, 98, 46, 105, 111>>
EmailBad == <<98, 97, 100>>
EmailUpper == <<65, 64, 66, 46, 73, 79>>
EmailPadded == <<32>> \o EmailOne
Secrets == {"s1", "s2"}

JwtSecret == "JWT_SECRET"
RefreshSecret == "REFRESH_TOKEN_SECRET"

----------------------------------------------------------------------------
(* Collaborators outside the repository, by their contract *)

\* the UTF-8 encoding of a code point and of a string
Utf8Bytes(char) ==
    IF char < 128 THEN <<char>>
    ELSE IF char < 2048 THEN <<192 + (char \div 64), 128 + (char % 64)>>
    ELSE IF char < 65536
    THEN <<224 + (char \div 4096), 128 + ((char \div 64) % 64), 128 + (char % 64)>>
    ELSE <<240 + (char \div 262144), 128 + ((char \div 4096) % 64), 128 + ((char \div 64) % 64),
           128 + (char % 64)>>
RECURSIVE Utf8(_)
Utf8(str) == IF str = <<>> THEN <<>> ELSE Utf8Bytes(Head(str)) \o Utf8(Tail(str))

\* bcrypt.  GenerateFromPassword refuses a password of more than 72 bytes
\* (its callers test that before they call Hash).  The Blowfish key
\* schedule reads BcryptMaxBytes bytes of the key, which is the password
\* followed by a NUL, starting over at its end: a hash stands for the bytes
\* read, and CompareHashAndPassword, which has no test of the length,
\* compares those.
BcryptMaxBytes == 72
BcryptKey(pw) ==
    LET key == Utf8(pw) \o <<0>>
    IN [i \in 1..BcryptMaxBytes |-> key[((i - 1) % Len(key)) + 1]]

\* the passwords of the requests besides PasswordOne and PasswordTwo:
\* "Aa1!Aa1! ", "Aa1!Aa1? " and "a"; "Aa1!Aa1!" nine and a half times over, which passes
\* ValidatePassword and is 76 bytes long; "Aa1!Aa1!" nine times over, the
\* longest password bcrypt hashes; and the same followed by "x"
PasswordOneSpace == PasswordOne \o <<32>>
PasswordTwoSpace == PasswordTwo \o <<32>>
PasswordWeak == <<97>>
PasswordLong == [i \in 1..76 |-> PasswordOne[((i - 1) % 8) + 1]]
Password72 == [i \in 1..BcryptMaxBytes |-> PasswordOne[((i - 1) % 8) + 1]]
Password73 == Password72 \o <<120>>
KnownPasswords ==
    Passwords \cup {PasswordOneSpace, PasswordTwoSpace, PasswordWeak, PasswordLong, Password72, Password73}

\* BcryptTable holds the hashes of the passwords above, each computed once
BcryptTable == [pw \in KnownPasswords |-> <<"bcrypt", BcryptKey(pw)>>]
Hash(pw) == IF pw \in KnownPasswords THEN BcryptTable[pw] ELSE <<"bcrypt", BcryptKey(pw)>>
CompareHashAndPassword(hash, pw) == hash = Hash(pw)

\* unicode.IsSpace on the code points below 256
IsSpace(char) == char \in {9, 10, 11, 12, 13, 32, 133, 160}

RECURSIVE TrimLeft(_)
TrimLeft(str) == IF str # <<>> /\ IsSpace(Head(str)) THEN TrimLeft(Tail(str)) ELSE str

RECURSIVE TrimRight(_)
TrimRight(str) ==
    IF str # <<>> /\ IsSpace(str[Len(str)]) THEN TrimRight(SubSeq(str, 1, Len(str) - 1)) ELSE str

TrimSpace(str) == TrimRight(TrimLeft(str))

\* the 6-digit code an authenticator derives from a secret; "" is no code
TotpCode(secret) ==
    CASE secret = "s1" -> <<49, 49, 49, 49, 49, 49>>
      [] secret = "s2" -> <<50, 50, 50, 50, 50, 50>>
      [] OTHER -> <<48, 48, 48, 48, 48, 48>>

\* totp.Validate: the library takes the white space off both ends of the
\* passcode (strings.TrimSpace in hotp.ValidateCustom) and compares what is
\* left with the code of the secret
TotpValidate(code, secret) == TrimSpace(code) = TotpCode(secret)

MfaCodes == {<<>>} \cup {TotpCode(x) : x \in Secrets}

\* " ", a code of which SanitizeInput leaves nothing; the code of "s1"
\* followed by a line feed, which SanitizeInput and totp.Validate both take
\* off; and the code of "s1" after U+0001 and a space, of which SanitizeInput
\* leaves the space and the code
CodeBlank == <<32>>
CodePadded == TotpCode("s1") \o <<10>>
CodeControl == <<1, 32>> \o TotpCode("s1")

----------------------------------------------------------------------------
(* Addresses.  r.RemoteAddr and header values are strings; a string is     *)
(* modelled by its ":"-separated segments, <<"h1","p1">> being "h1:p1".    *)

StripPort(addr) == IF Len(addr) > 1 THEN SubSeq(addr, 1, Len(addr) - 1) ELSE addr

\* the headers both IP extractors go through, in the order of their loop
IpHeaders ==
    <<"X-Forwarded-For", "X-Real-IP", "CF-Connecting-IP", "X-Client-IP", "X-Forwarded",
      "Forwarded-For", "Forwarded">>

\* a request without any of the headers after X-Forwarded-For, and one
\* with a single such header
NoHeaders == <<>>
Header(name, value) == [h \in {name} |-> value]

\* r.Header.Get(header), "" (here <<>>) when the header is absent; xff is the
\* value of X-Forwarded-For split at its commas, headers maps the name of
\* every other header the request carries to its value
HeaderGet(r, header) ==
    IF header = "X-Forwarded-For" THEN r.xff
    ELSE IF header \in DOMAIN r.headers THEN r.headers[header]
    ELSE <<>>

\* the first header of the loop that is not empty, 0 when all are
FirstIpHeader(r) ==
    LET set == {i \in DOMAIN IpHeaders : HeaderGet(r, IpHeaders[i]) # <<>>}
    IN IF set = {} THEN 0 ELSE CHOOSE i \in set : \A j \in set : i <= j

\* AuditLogger.extractIPAddress
extractIPAddress(r) ==
    LET i == FirstIpHeader(r)
    IN IF i # 0
       THEN IF IpHeaders[i] = "X-Forwarded-For" THEN Head(r.xff) ELSE r.headers[IpHeaders[i]]
       ELSE IF r.remoteAddr # <<>> THEN StripPort(r.remoteAddr)
       ELSE <<"unknown">>

----------------------------------------------------------------------------
(* AuditLogger *)

getSeverityUnknownLow(eventType) ==
    CASE eventType \in {"SUSPICIOUS_ACTIVITY", "ACCOUNT_LOCKED", "RATE_LIMIT_EXCEEDED"} -> "HIGH"
      [] eventType \in {"LOGIN_FAILED", "LOGIN_MFA_FAILED", "REGISTER_FAILED", "VALIDATION_FAILED"} -> "MEDIUM"
      [] OTHER -> "LOW"
getSeverityForEventType(eventType) ==
    CASE eventType \in {"SUSPICIOUS_ACTIVITY", "ACCOUNT_LOCKED", "RATE_LIMIT_EXCEEDED"} -> "HIGH"
      [] eventType \in {"LOGIN_FAILED", "LOGIN_MFA_FAILED", "REGISTER_FAILED", "VALIDATION_FAILED"} -> "MEDIUM"
      [] eventType \in {"LOGIN_SUCCESS", "REGISTER_SUCCESS", "PASSWORD_CHANGED", "MFA_ENABLED",
                        "MFA_DISABLED", "TOKEN_REFRESHED", "LOGOUT_SUCCESS", "ACCOUNT_UNLOCKED"} -> "LOW"
      [] OTHER -> "MEDIUM"

\* LogEvent fills in the severity when the caller left it empty
LogEvent(event) ==
    IF event.severity = ""
    THEN [event EXCEPT !.severity = getSeverityForEventType(event.eventType)]
    ELSE event

LogAuthEvent(r, eventType, userID, email, reason) ==
    LogEvent([eventType |-> eventType, userID |-> userID, email |-> email,
              ip |-> extractIPAddress(r), reason |-> reason, severity |-> "", ts |-> now])

LogSecurityEvent(r, eventType, reason) ==
    LogEvent([eventType |-> eventType, userID |-> <<>>, email |-> <<>>,
              ip |-> extractIPAddress(r), reason |-> reason, severity |-> "HIGH", ts |-> now])

\* the event types of the three cases of getSeverityForEventType
HighTypes == {"SUSPICIOUS_ACTIVITY", "ACCOUNT_LOCKED", "RATE_LIMIT_EXCEEDED"}
MediumTypes == {"LOGIN_FAILED", "LOGIN_MFA_FAILED", "REGISTER_FAILED", "VALIDATION_FAILED"}
LowTypes == {"LOGIN_SUCCESS", "REGISTER_SUCCESS", "PASSWORD_CHANGED", "MFA_ENABLED",
             "MFA_DISABLED", "TOKEN_REFRESHED", "LOGOUT_SUCCESS", "ACCOUNT_UNLOCKED"}

FailureTypes == {"LOGIN_FAILED", "VALIDATION_FAILED", "RATE_LIMIT_EXCEEDED"}

\* the rows the COUNT(*) of DetectSuspiciousActivity selects
SuspiciousRows(ip, timeWindow) ==
    {e \in DOMAIN auditDB : /\ e.ip = ip
                            /\ e.eventType \in FailureTypes
                            /\ e.ts >= now - timeWindow}

failedAttemptsCount(ip, timeWindow) ==
    BagCardinality([e \in SuspiciousRows(ip, timeWindow) |-> auditDB[e]])

\* queryOk: the COUNT(*) answered; when it fails the error is logged and the
\* client is not held suspicious
DetectSuspiciousActivity(ip, timeWindow, queryOk) ==
    IF ~queryOk THEN FALSE
    ELSE failedAttemptsCount(ip, timeWindow) > SuspiciousThreshold

----------------------------------------------------------------------------
(* RateLimiter *)

NewRateLimiter(limit, window) == [limit |-> limit, window |-> window, requests |-> <<>>]

\* now.Sub(req.startTime) > rl.window
WindowExpiredAtEdge(req, window, t) == t - req.startTime >= window
WindowExpired(req, window, t) == t - req.startTime > window

\* req.count >= rl.limit
LimitReachedLate(req, limit) == req.count > limit
LimitReached(req, limit) == req.count >= limit

\* RateLimiter.Allow: the decision and the limiter afterwards (one critical section)
AllowCounting(l, key, t) ==
    IF key \in DOMAIN l.requests
    THEN LET req == l.requests[key] IN
         IF WindowExpired(req, l.window, t)
         THEN [ok |-> TRUE,
               rl |-> [l EXCEPT !.requests[key] = [count |-> 1, startTime |-> t]]]
         ELSE [ok |-> ~LimitReached(req, l.limit),
               rl |-> [l EXCEPT !.requests[key].count = req.count + 1]]
    ELSE [ok |-> TRUE,
          rl |-> [l EXCEPT !.requests =
                     [k \in DOMAIN l.requests \cup {key} |->
                         IF k = key THEN [count |-> 1, startTime |-> t] ELSE l.requests[k]]]]
Allow(l, key, t) ==
    IF key \in DOMAIN l.requests
    THEN LET req == l.requests[key] IN
         IF WindowExpired(req, l.window, t)
         THEN [ok |-> TRUE,
               rl |-> [l EXCEPT !.requests[key] = [count |-> 1, startTime |-> t]]]
         ELSE IF LimitReached(req, l.limit)
         THEN [ok |-> FALSE, rl |-> l]
         ELSE [ok |-> TRUE, rl |-> [l EXCEPT !.requests[key].count = req.count + 1]]
    ELSE [ok |-> TRUE,
          rl |-> [l EXCEPT !.requests =
                     [k \in DOMAIN l.requests \cup {key} |->
                         IF k = key THEN [count |-> 1, startTime |-> t] ELSE l.requests[k]]]]

\* a caller invokes Allow(key), gap minutes after the previous call was made
AllowCall(key, gap) ==
    /\ Len(hist) < MaxCalls
    /\ LET t == now + gap
           a == Allow(rl, key, t)
       IN /\ now' = t
          /\ rl' = a.rl
          /\ hist' = Append(hist, [key |-> key, t |-> t, ok |-> a.ok])
    /\ UNCHANGED <<users, auditDB, auditPending, reqs, streak, csrfVars, tokVars, edgeVars>>

----------------------------------------------------------------------------
(* HTTP responses and request slots *)

Response(status, field, text) == [status |-> status, field |-> field, text |-> text, cookies |-> {}]
NoResponse == Response(0, "", "")

Idle == [op |-> "none", pc |-> "idle", in |-> <<>>, uid |-> NoUser, user |-> <<>>, at |-> NoTime,
         pwOk |-> FALSE, passed |-> {}, events |-> <<>>, resp |-> NoResponse]

Free(s) == reqs[s].pc \in {"idle", "done"}

\* request s moves on to rec; a response already delivered is on record only
\* until some request takes its next step
Put(s, rec) ==
    [r \in Slots |-> IF r = s THEN rec
                     ELSE IF reqs[r].pc = "done" THEN Idle
                     ELSE reqs[r]]

\* the handler returns: the response is written and the audit event handed to LogEvent
Return(s, req, events, resp) ==
    /\ reqs' = Put(s, [req EXCEPT !.pc = "done", !.events = events, !.resp = resp])
    /\ auditPending' = IF events = <<>> THEN auditPending
                       ELSE auditPending (+) SetToBag({events[1]})

----------------------------------------------------------------------------
(* TokenManager.  A signed token is modelled by its claims, the algorithm   *)
(* of its header and the key its signature was made with.                  *)

(* users.id is BINARY(16): the userID Login and RefreshToken hand to the    *)
(* generators is the string of those 16 bytes.  SignedString encodes the   *)
(* claims with json.Marshal, which writes U+FFFD for every byte that does  *)
(* not begin a valid UTF-8 sequence, so the subject a verifier reads is    *)
(* the sequence of code points JsonString gives.                            *)

IsCont(byte) == byte \in 128..191

\* the length of the UTF-8 sequence bytes begins with, 0 when it begins with
\* none (utf8.DecodeRuneInString giving RuneError and width 1)
RuneLen(bytes) ==
    LET n == Len(bytes)
        b1 == bytes[1]
    IN IF b1 < 128 THEN 1
       ELSE IF b1 \in 194..223 THEN (IF n >= 2 /\ IsCont(bytes[2]) THEN 2 ELSE 0)
       ELSE IF b1 \in 224..239
       THEN (IF /\ n >= 3 /\ IsCont(bytes[3])
                /\ bytes[2] \in (IF b1 = 224 THEN 160..191 ELSE IF b1 = 237 THEN 128..159 ELSE 128..191)
             THEN 3 ELSE 0)
       ELSE IF b1 \in 240..244
       THEN (IF /\ n >= 4 /\ IsCont(bytes[3]) /\ IsCont(bytes[4])
                /\ bytes[2] \in (IF b1 = 240 THEN 144..191 ELSE IF b1 = 244 THEN 128..143 ELSE 128..191)
             THEN 4 ELSE 0)
       ELSE 0

\* the code point of the sequence of k bytes that bytes begins with
DecodeRune(bytes, k) ==
    CASE k = 1 -> bytes[1]
      [] k = 2 -> (bytes[1] - 192) * 64 + (bytes[2] - 128)
      [] k = 3 -> (bytes[1] - 224) * 4096 + (bytes[2] - 128) * 64 + (bytes[3] - 128)
      [] OTHER -> (bytes[1] - 240) * 262144 + (bytes[2] - 128) * 4096
                      + (bytes[3] - 128) * 64 + (bytes[4] - 128)

RECURSIVE DecodeRunes(_)
DecodeRunes(bytes) ==
    IF bytes = <<>> THEN <<>>
    ELSE LET k == RuneLen(bytes)
         IN IF k = 0 THEN <<65533>> \o DecodeRunes(Tail(bytes))     \* U+FFFD
            ELSE <<DecodeRune(bytes, k)>> \o DecodeRunes(SubSeq(bytes, k + 1, Len(bytes)))

\* UUID_TO_BIN(UUID()) for the rows in the order the model names them, on a
\* server whose UUIDs are not valid UTF-8 (6ccd780c-9a3f-11f1-8e2b-0242ac110002
\* and the next two)
IdBinary == <<108, 205, 120, 12, 154, 63, 17, 241, 142, 43, 2, 66, 172, 17, 0, 2>>
Uuid == [u1 |-> IdBinary,
         u2 |-> <<108, 205, 120, 13, 154, 63, 17, 241, 142, 43, 2, 66, 172, 17, 0, 2>>,
         u3 |-> <<108, 205, 120, 14, 154, 63, 17, 241, 142, 43, 2, 66, 172, 17, 0, 2>>]
\* 6c4d780c-5a3f-11f1-8eab-82422c110002, version 1 as well, is valid UTF-8
IdText == <<108, 77, 120, 12, 90, 63, 17, 241, 142, 171, 130, 66, 44, 17, 0, 2>>
IdValues == {IdBinary, IdText}
KnownIds == IdValues \cup {Uuid[row] : row \in DOMAIN Uuid}

\* JsonTable holds the subjects of the ids above, each computed once
JsonTable == [bytes \in KnownIds |-> DecodeRunes(bytes)]
JsonString(bytes) == IF bytes \in KnownIds THEN JsonTable[bytes] ELSE DecodeRunes(bytes)

generateAccessToken(userID) ==
    [sub |-> JsonString(userID), exp |-> now + AccessTTL, alg |-> "HS256", key |-> JwtSecret]

generateRefreshToken(userID) ==
    [sub |-> JsonString(userID), exp |-> now + RefreshTTL, alg |-> "HS256", key |-> RefreshSecret]

NoToken == [sub |-> <<>>, exp |-> 0, alg |-> "", key |-> ""]    \* the cookie is absent
NoPair == [id |-> "", access |-> NoToken, refresh |-> NoToken]
NoVerdict == [by |-> "", src |-> "", id |-> "", tok |-> NoToken, at |-> 0,
              ok |-> FALSE, status |-> 0, sub |-> <<>>]

\* the id of row, or the one UUID() gives it when it is inserted
IdOf(row) == IF row \in DOMAIN users THEN users[row].id ELSE Uuid[row]

\* SELECT ... FROM users WHERE id = ?, the parameter being the Go string userID
SelectById(userID) ==
    IF \E row \in DOMAIN users : users[row].id = Utf8(userID)
    THEN CHOOSE row \in DOMAIN users : users[row].id = Utf8(userID)
    ELSE NoUser

HMACAlgs == {"HS256", "HS384", "HS512"}

\* jwt.Parse with a keyfunc that admits only *jwt.SigningMethodHMAC and hands
\* out secret: the signature verifies and the exp claim is still ahead
ParseTokenAnyAlg(tok, secret) ==
    /\ tok.key = secret
    /\ now < tok.exp
ParseTokenNoExpiry(tok, secret) ==
    /\ tok.alg \in HMACAlgs
    /\ tok.key = secret
ParseToken(tok, secret) ==
    /\ tok.alg \in HMACAlgs
    /\ tok.key = secret
    /\ now < tok.exp

\* AuthMiddleware.Authenticate: the decision, and the subject put in the context
Authenticate(tok) ==
    IF tok # NoToken /\ ParseToken(tok, JwtSecret)
    THEN [ok |-> TRUE, status |-> 200, sub |-> tok.sub]
    ELSE [ok |-> FALSE, status |-> 401, sub |-> <<>>]

\* tokens a client makes itself: signed with a key of its own, or naming a
\* non-HMAC algorithm over a signature one of the server's secrets verifies
Forged ==
    {[sub |-> JsonString(IdOf(id)), exp |-> MaxTime + 1, alg |-> a, key |-> "attacker"] :
        id \in Principals, a \in {"HS256", "none"}}
    \cup {[sub |-> JsonString(IdOf(id)), exp |-> MaxTime + 1, alg |-> a, key |-> k] :
             id \in Principals, a \in {"none", "RS256"}, k \in {JwtSecret, RefreshSecret}}
\* the tokens a client can put in a cookie: one of the pair it was given
\* last, one it made itself, or a refresh token it was given earlier
Presented ==
    {[src |-> "access", id |-> jar.id, tok |-> jar.access],
     [src |-> "refresh", id |-> jar.id, tok |-> jar.refresh]}
        \cup {[src |-> "forged", id |-> "", tok |-> f] : f \in Forged}
        \cup {[src |-> "spent", id |-> SelectById(t.sub), tok |-> t] : t \in spent}

\* what Login and RefreshToken do once every check has passed
MintPair(id) ==
    /\ jar' = [id |-> id, access |-> generateAccessToken(IdOf(id)),
               refresh |-> generateRefreshToken(IdOf(id))]
    /\ UNCHANGED <<now, authVars, hist, csrfVars, verdict, spent, edgeVars>>

\* a request carrying p.tok in its access_token cookie reaches the middleware
AuthenticateRequest(p) ==
    /\ LET a == Authenticate(p.tok)
       IN verdict' = [by |-> "Authenticate", src |-> p.src, id |-> p.id, tok |-> p.tok, at |-> now,
                      ok |-> a.ok, status |-> a.status, sub |-> a.sub]
    /\ UNCHANGED <<now, authVars, hist, csrfVars, jar, spent, edgeVars>>

\* RefreshToken's lock check on the row it loaded
RefreshLocked(user) == user.lockedUntil # NoTime /\ now < user.lockedUntil

\* AuthHandler.RefreshToken with p.tok in the refresh_token cookie; the new
\* access token travels in the response body, the refresh token in the cookie
RefreshToken(p) ==
    /\ LET tok == p.tok
           v == [by |-> "RefreshToken", src |-> p.src, id |-> p.id, tok |-> tok, at |-> now,
                 ok |-> FALSE, status |-> 401, sub |-> <<>>]
           row == SelectById(tok.sub)
       IN IF tok = NoToken \/ ~ParseToken(tok, RefreshSecret)
          THEN verdict' = v /\ UNCHANGED <<jar, spent>>
          ELSE IF row = NoUser
          THEN verdict' = v /\ UNCHANGED <<jar, spent>>
          ELSE IF RefreshLocked(users[row])
          THEN verdict' = v /\ UNCHANGED <<jar, spent>>
          ELSE /\ verdict' = [v EXCEPT !.ok = TRUE, !.status = 200, !.sub = tok.sub]
               /\ jar' = [id |-> row, access |-> generateAccessToken(users[row].id),
                          refresh |-> generateRefreshToken(users[row].id)]
               /\ spent' = spent \cup {tok}
    /\ UNCHANGED <<now, authVars, hist, csrfVars, edgeVars>>

----------------------------------------------------------------------------
(* Requests as the CSRF middlewares see them: the method, the path, the    *)
(* X-CSRF-Token header and the csrf_token form field (0, the empty string, *)
(* when absent), and the CSRF cookie (<<>> when absent, else <<value>>).   *)
(* A path is the sequence of the pieces it is written with.                *)

NoGate == [by |-> "", method |-> "", path |-> <<>>, header |-> 0, form |-> 0, cookie |-> <<>>,
           passed |-> FALSE, status |-> 0, consumed |-> 0, setCookie |-> FALSE]

SafeMethods == {"GET", "HEAD", "OPTIONS"}
Methods == SafeMethods \cup {"POST", "PUT", "PATCH", "DELETE"}

\* strings.HasPrefix
HasPrefix(s, prefix) == Len(s) >= Len(prefix) /\ SubSeq(s, 1, Len(prefix)) = prefix

\* the request as gate records it on arrival; it ends with next.ServeHTTP
\* (passed) or with http.Error(w, ..., http.StatusForbidden)
Seen(by, r) == [NoGate EXCEPT !.by = by, !.method = r.method, !.path = r.path,
                              !.header = r.header, !.form = r.form, !.cookie = r.cookie]

----------------------------------------------------------------------------
(* CSRFProtection.  Tokens are 32 bytes of crypto/rand: the n-th token     *)
(* drawn is named n, and no value is drawn twice.                          *)

EmptyToken == 0     \* the empty string
TokenNames == 0..MaxTokens

NewCSRFProtection == [tokens |-> <<>>, nextSweep |-> SweepInterval]

Without(tokens, gone) == [k \in DOMAIN tokens \ gone |-> tokens[k]]

\* CSRFProtection.ValidateToken at time t: the answer and the table afterwards
ValidateTokenReplay(tokens, token, t) ==
    IF token = EmptyToken \/ token \notin DOMAIN tokens THEN [ok |-> FALSE, tokens |-> tokens]
    ELSE IF t > tokens[token].expiresAt THEN [ok |-> FALSE, tokens |-> Without(tokens, {token})]
    ELSE [ok |-> TRUE, tokens |-> [tokens EXCEPT ![token].used = TRUE]]
ValidateTokenKeepExpired(tokens, token, t) ==
    IF token = EmptyToken THEN [ok |-> FALSE, tokens |-> tokens]
    ELSE IF token \notin DOMAIN tokens THEN [ok |-> FALSE, tokens |-> tokens]
    ELSE IF t > tokens[token].expiresAt THEN [ok |-> FALSE, tokens |-> tokens]
    ELSE IF tokens[token].used THEN [ok |-> FALSE, tokens |-> tokens]
    ELSE [ok |-> TRUE, tokens |-> [tokens EXCEPT ![token].used = TRUE]]
ValidateToken(tokens, token, t) ==
    IF token = EmptyToken THEN [ok |-> FALSE, tokens |-> tokens]
    ELSE IF token \notin DOMAIN tokens THEN [ok |-> FALSE, tokens |-> tokens]
    ELSE IF t > tokens[token].expiresAt THEN [ok |-> FALSE, tokens |-> Without(tokens, {token})]
    ELSE IF tokens[token].used THEN [ok |-> FALSE, tokens |-> tokens]
    ELSE [ok |-> TRUE, tokens |-> [tokens EXCEPT ![token].used = TRUE]]

GenerateToken ==
    /\ csrfIssued < MaxTokens
    /\ LET token == csrfIssued + 1
       IN /\ csrf' = [csrf EXCEPT !.tokens =
                         [k \in DOMAIN csrf.tokens \cup {token} |->
                             IF k = token THEN [expiresAt |-> now + CsrfTTL, used |-> FALSE]
                             ELSE csrf.tokens[k]]]
          /\ csrfIssued' = token
    /\ UNCHANGED <<now, authVars, hist, csrfTrue, csrfLast, tokVars, edgeVars>>

ValidateTokenCall(token) ==
    /\ LET v == ValidateToken(csrf.tokens, token, now)
       IN /\ csrf' = [csrf EXCEPT !.tokens = v.tokens]
          /\ csrfTrue' = IF v.ok THEN [csrfTrue EXCEPT ![token] = @ + 1] ELSE csrfTrue
          /\ csrfLast' = [token |-> token, ok |-> v.ok]
    /\ UNCHANGED <<now, authVars, hist, csrfIssued, tokVars, edgeVars>>

\* a pass that also takes the tokens in their last minute
cleanupAtExpiry ==
    /\ now >= csrf.nextSweep
    /\ csrf' = [tokens |-> Without(csrf.tokens,
                              {k \in DOMAIN csrf.tokens :
                                  now >= csrf.tokens[k].expiresAt \/ csrf.tokens[k].used}),
                nextSweep |-> csrf.nextSweep + SweepInterval]
    /\ UNCHANGED <<now, authVars, hist, csrfIssued, csrfTrue, csrfLast, tokVars, edgeVars>>
\* one pass of the loop of cleanupExpiredTokens, some time after its tick
cleanupExpiredTokens ==
    /\ now >= csrf.nextSweep
    /\ csrf' = [tokens |-> Without(csrf.tokens,
                              {k \in DOMAIN csrf.tokens :
                                  now > csrf.tokens[k].expiresAt \/ csrf.tokens[k].used}),
                nextSweep |-> csrf.nextSweep + SweepInterval]
    /\ UNCHANGED <<now, authVars, hist, csrfIssued, csrfTrue, csrfLast, tokVars, edgeVars>>

\* CSRFProtection.extractToken: the header, else the form field
extractToken(r) == IF r.header # EmptyToken THEN r.header ELSE r.form

RefreshPrefix == <<"/api/auth/refresh">>

\* CSRFProtection.CSRFMiddleware serving request r
CSRFMiddleware(r) ==
    /\ LET g == Seen("CSRFMiddleware", r)
           token == extractToken(r)
           v == ValidateToken(csrf.tokens, token, now)
       IN IF r.method \in SafeMethods \/ HasPrefix(r.path, RefreshPrefix)
          THEN gate' = [g EXCEPT !.passed = TRUE] /\ UNCHANGED csrfVars
          ELSE /\ csrf' = [csrf EXCEPT !.tokens = v.tokens]
               /\ csrfTrue' = IF v.ok THEN [csrfTrue EXCEPT ![token] = @ + 1] ELSE csrfTrue
               /\ csrfLast' = [token |-> token, ok |-> v.ok]
               /\ gate' = IF v.ok THEN [g EXCEPT !.passed = TRUE, !.consumed = token] ELSE [g EXCEPT !.status = 403]
               /\ UNCHANGED csrfIssued
    /\ UNCHANGED <<now, authVars, hist, tokVars, mwVars, procLog, call>>

\* DoubleSubmitCookie.validateCSRFToken
validateCSRFTokenNoCompare(r) == r.cookie # <<>> /\ r.header # EmptyToken
validateCSRFToken(r) ==
    IF r.cookie = <<>> THEN FALSE
    ELSE IF r.header = EmptyToken THEN FALSE
    ELSE r.cookie[1] = r.header

\* DoubleSubmitCookie.Middleware serving request r (cookie csrf_token)
DoubleSubmitCookie(r) ==
    /\ LET g == Seen("DoubleSubmitCookie", r)
       IN gate' = IF r.method \in SafeMethods THEN [g EXCEPT !.passed = TRUE, !.setCookie = TRUE]
                  ELSE IF ~validateCSRFToken(r) THEN [g EXCEPT !.status = 403]
                  ELSE [g EXCEPT !.passed = TRUE]
    /\ UNCHANGED <<now, authVars, hist, csrfVars, tokVars, mwVars, procLog, call>>

\* middleware.CSRFMiddleware.ValidateCSRF serving request r (cookie CSRF-Token)
ValidateCSRF(r) ==
    /\ LET g == Seen("ValidateCSRF", r)
       IN gate' = IF r.method \in SafeMethods THEN [g EXCEPT !.passed = TRUE]
                  ELSE IF r.cookie = <<>> \/ r.header = EmptyToken \/ r.header # r.cookie[1]
                  THEN [g EXCEPT !.status = 403]
                  ELSE [g EXCEPT !.passed = TRUE]
    /\ UNCHANGED <<now, authVars, hist, csrfVars, tokVars, mwVars, procLog, call>>

----------------------------------------------------------------------------
(* RateLimitMiddleware(100, time.Hour), installed on the router.  Its map  *)
(* is shared by the goroutines net/http serves requests in and is guarded  *)
(* by no lock, so a request advances by one access to the shared memory at *)
(* a time.  The map holds pointers: heap is the rateLimitInfo structs ever *)
(* allocated, limiter maps an ip to the index of its struct.               *)

\* middleware.extractClientIP
extractClientIP(r) ==
    LET i == FirstIpHeader(r)
    IN IF i # 0
       THEN IF IpHeaders[i] = "X-Forwarded-For" THEN Head(r.xff) ELSE r.headers[IpHeaders[i]]
       ELSE IF r.remoteAddr # <<>> THEN StripPort(r.remoteAddr)
       ELSE <<"unknown">>

\* k and v are the variables of the clean-up loop; seen are the keys the
\* loop has produced, due those present when it began and not deleted since
MwIdle == [pc |-> "idle", ip |-> <<>>, at |-> NoTime, info |-> 0, count |-> 0, status |-> 0,
           k |-> <<>>, v |-> 0, seen |-> {}, due |-> {}]

MwFree(s) == mwReqs[s].pc \in {"idle", "done"}

\* goroutine s moves on to rec; finished goroutines are forgotten
MwPut(s, rec) ==
    [r \in Slots |-> IF r = s THEN rec
                     ELSE IF mwReqs[r].pc = "done" THEN MwIdle
                     ELSE mwReqs[r]]

\* ip := extractClientIP(r); now := time.Now(); the range loop begins
MwEnter(s, r) ==
    /\ MwFree(s)
    /\ \A x \in Slots : mwReqs[x].pc # "dead"
    /\ mwServed < MaxMwRequests
    /\ mwReqs' = MwPut(s, [MwIdle EXCEPT !.pc = "sweep", !.ip = extractClientIP(r), !.at = now,
                                         !.due = DOMAIN mw.limiter])
    /\ mwServed' = mwServed + 1
    /\ UNCHANGED <<now, authVars, hist, csrfVars, tokVars, mw, mwAdmitted, gate, procLog, call>>

\* "for k, v := range limiter" produces an entry not produced before: one
\* that was there when the loop began, or one inserted since
MwSweepNext(s) ==
    /\ mwReqs[s].pc = "sweep"
    /\ \E k \in DOMAIN mw.limiter \ mwReqs[s].seen :
          mwReqs' = MwPut(s, [mwReqs[s] EXCEPT !.pc = "sweepTest", !.k = k, !.v = mw.limiter[k],
                                               !.seen = @ \cup {k}])
    /\ UNCHANGED <<now, authVars, hist, csrfVars, tokVars, mw, mwAdmitted, mwServed, gate, procLog, call>>

\* "if now.Sub(v.firstRequest) > window", read through the pointer v
MwSweepTest(s) ==
    /\ mwReqs[s].pc = "sweepTest"
    /\ mwReqs' = MwPut(s, [mwReqs[s] EXCEPT
                              !.pc = IF mwReqs[s].at - mw.heap[mwReqs[s].v].firstRequest > MwWindow
                                     THEN "sweepDelete" ELSE "sweep"])
    /\ UNCHANGED <<now, authVars, hist, csrfVars, tokVars, mw, mwAdmitted, mwServed, gate, procLog, call>>

\* delete(limiter, k): whatever entry the key has by now is removed, and no
\* loop that is under way has to produce that key any more
MwSweepDelete(s) ==
    /\ mwReqs[s].pc = "sweepDelete"
    /\ mw' = [mw EXCEPT !.limiter = Without(mw.limiter, {mwReqs[s].k})]
    /\ mwReqs' = [r \in Slots |->
                     IF r = s THEN [mwReqs[s] EXCEPT !.pc = "sweep"]
                     ELSE IF mwReqs[r].pc = "done" THEN MwIdle
                     ELSE [mwReqs[r] EXCEPT !.due = @ \ {mwReqs[s].k}]]
    /\ UNCHANGED <<now, authVars, hist, csrfVars, tokVars, mwAdmitted, mwServed, gate, procLog, call>>

\* the loop ends: every entry it had to produce has been produced (an entry
\* inserted while it ran may have been skipped)
MwSweepEnd(s) ==
    /\ mwReqs[s].pc = "sweep"
    /\ (mwReqs[s].due \cap DOMAIN mw.limiter) \subseteq mwReqs[s].seen
    /\ mwReqs' = MwPut(s, [mwReqs[s] EXCEPT !.pc = "lookup"])
    /\ UNCHANGED <<now, authVars, hist, csrfVars, tokVars, mw, mwAdmitted, mwServed, gate, procLog, call>>

\* info, exists := limiter[ip]
MwLookup(s) ==
    /\ mwReqs[s].pc = "lookup"
    /\ LET exists == mwReqs[s].ip \in DOMAIN mw.limiter
       IN mwReqs' = MwPut(s, [mwReqs[s] EXCEPT !.pc = IF exists THEN "load" ELSE "insert",
                                                   !.info = IF exists THEN mw.limiter[mwReqs[s].ip] ELSE 0])
    /\ UNCHANGED <<now, authVars, hist, csrfVars, tokVars, mw, mwAdmitted, mwServed, gate, procLog, call>>

\* !exists: limiter[ip] = &rateLimitInfo{count: 1, firstRequest: now}; next.ServeHTTP
MwInsert(s) ==
    /\ mwReqs[s].pc = "insert"
    /\ LET req == mwReqs[s]
           p == Len(mw.heap) + 1
       IN /\ mw' = [limiter |-> [k \in DOMAIN mw.limiter \cup {req.ip} |->
                                    IF k = req.ip THEN p ELSE mw.limiter[k]],
                    heap |-> Append(mw.heap, [count |-> 1, firstRequest |-> req.at])]
          /\ mwReqs' = MwPut(s, [req EXCEPT !.pc = "done", !.info = p, !.status = 200])
          /\ mwAdmitted' = [mwAdmitted EXCEPT ![req.ip] = @ + 1]
    /\ UNCHANGED <<now, authVars, hist, csrfVars, tokVars, mwServed, gate, procLog, call>>

\* "if now.Sub(info.firstRequest) > window", read through the pointer info
MwLoad(s) ==
    /\ mwReqs[s].pc = "load"
    /\ LET req == mwReqs[s]
           info == mw.heap[req.info]
       IN mwReqs' = MwPut(s, [req EXCEPT !.pc = IF req.at - info.firstRequest > MwWindow
                                                 THEN "resetCount" ELSE "incr"])
    /\ UNCHANGED <<now, authVars, hist, csrfVars, tokVars, mw, mwAdmitted, mwServed, gate, procLog, call>>

\* info.count = 1
MwResetCount(s) ==
    /\ mwReqs[s].pc = "resetCount"
    /\ mw' = [mw EXCEPT !.heap[mwReqs[s].info].count = 1]
    /\ mwReqs' = MwPut(s, [mwReqs[s] EXCEPT !.pc = "resetTime", !.count = 1])
    /\ UNCHANGED <<now, authVars, hist, csrfVars, tokVars, mwAdmitted, mwServed, gate, procLog, call>>

\* info.firstRequest = now
MwResetTime(s) ==
    /\ mwReqs[s].pc = "resetTime"
    /\ mw' = [mw EXCEPT !.heap[mwReqs[s].info].firstRequest = mwReqs[s].at]
    /\ mwReqs' = MwPut(s, [mwReqs[s] EXCEPT !.pc = "check"])
    /\ UNCHANGED <<now, authVars, hist, csrfVars, tokVars, mwAdmitted, mwServed, gate, procLog, call>>

\* the read half of info.count++
MwIncr(s) ==
    /\ mwReqs[s].pc = "incr"
    /\ mwReqs' = MwPut(s, [mwReqs[s] EXCEPT !.pc = "store",
                                            !.count = mw.heap[mwReqs[s].info].count + 1])
    /\ UNCHANGED <<now, authVars, hist, csrfVars, tokVars, mw, mwAdmitted, mwServed, gate, procLog, call>>

\* the write half of info.count++
MwStore(s) ==
    /\ mwReqs[s].pc = "store"
    /\ mw' = [mw EXCEPT !.heap[mwReqs[s].info].count = mwReqs[s].count]
    /\ mwReqs' = MwPut(s, [mwReqs[s] EXCEPT !.pc = "check"])
    /\ UNCHANGED <<now, authVars, hist, csrfVars, tokVars, mwAdmitted, mwServed, gate, procLog, call>>

\* "if info.count > maxRequests": the value compared is the one in memory or
\* the one the goroutine has just computed
MwCheck(s) ==
    /\ mwReqs[s].pc = "check"
    /\ \E count \in {mw.heap[mwReqs[s].info].count, mwReqs[s].count} :
          IF count > MwMaxRequests
          THEN /\ mwReqs' = MwPut(s, [mwReqs[s] EXCEPT !.pc = "done", !.status = 429])
               /\ UNCHANGED mwAdmitted
          ELSE /\ mwReqs' = MwPut(s, [mwReqs[s] EXCEPT !.pc = "done", !.status = 200])
               /\ mwAdmitted' = [mwAdmitted EXCEPT ![mwReqs[s].ip] = @ + 1]
    /\ UNCHANGED <<now, authVars, hist, csrfVars, tokVars, mw, mwServed, gate, procLog, call>>

\* the positions whose next step is an operation on the map itself: the
\* iteration, the lookup, the assignment and the delete; the last two write
MwMapAccess == {"sweep", "lookup", "insert", "sweepDelete"}
MwMapWrite == {"insert", "sweepDelete"}

\* a goroutine writes the map while another one is in an operation on it,
\* and the runtime notices: "fatal error: concurrent map writes" (or "...
\* map read and map write", "... map iteration and map write"), the
\* process ends
MwFatal ==
    /\ \E s, t \in Slots : /\ s # t
                           /\ mwReqs[s].pc \in MwMapWrite
                           /\ mwReqs[t].pc \in MwMapAccess
    /\ mwReqs' = [s \in Slots |-> [mwReqs[s] EXCEPT !.pc = "dead"]]
    /\ UNCHANGED <<now, authVars, hist, csrfVars, tokVars, mw, mwAdmitted, mwServed, gate, procLog, call>>

----------------------------------------------------------------------------
(* RateLimitMiddleware(maxRequests, window) serving one request from start *)
(* to end with nothing in between: whether the request is handed on, and   *)
(* the map afterwards.                                                      *)

RateLimitMiddleware(m, maxRequests, window, ip, t) ==
    LET old == {k \in DOMAIN m.limiter : t - m.heap[m.limiter[k]].firstRequest > window}
        limiter == Without(m.limiter, old)
    IN IF ip \notin DOMAIN limiter
       THEN [ok |-> TRUE,
             mw |-> [limiter |-> [k \in DOMAIN limiter \cup {ip} |->
                                     IF k = ip THEN Len(m.heap) + 1 ELSE limiter[k]],
                     heap |-> Append(m.heap, [count |-> 1, firstRequest |-> t])]]
       ELSE LET info == m.heap[limiter[ip]]
                after == IF t - info.firstRequest > window
                         THEN [count |-> 1, firstRequest |-> t]
                         ELSE [info EXCEPT !.count = @ + 1]
            IN [ok |-> ~(after.count > maxRequests),
                mw |-> [limiter |-> limiter, heap |-> [m.heap EXCEPT ![limiter[ip]] = after]]]

\* one request of client ip, gap minutes after the previous one, is put
\* before both limiters: RateLimiter.Allow under the key ip, and a
\* RateLimitMiddleware made with the same limit and window
BothLimiters(ip, gap) ==
    /\ Len(hist) < MaxCalls
    /\ LET t == now + gap
           a == Allow(rl, ip, t)
           m == RateLimitMiddleware(mw, rl.limit, rl.window, ip, t)
       IN /\ now' = t
          /\ rl' = a.rl
          /\ hist' = Append(hist, [key |-> ip, t |-> t, ok |-> a.ok])
          /\ mw' = m.mw
          /\ mwReqs' = [mwReqs EXCEPT ![1] = [MwIdle EXCEPT !.pc = "done", !.ip = ip, !.at = t,
                                                          !.status = IF m.ok THEN 200 ELSE 429]]
          /\ mwAdmitted' = [mwAdmitted EXCEPT ![ip] = IF m.ok THEN @ + 1 ELSE @]
          /\ mwServed' = mwServed + 1
    /\ UNCHANGED <<users, auditDB, auditPending, reqs, streak, csrfVars, tokVars, gate, procLog, call>>

----------------------------------------------------------------------------
(* Validator.  Strings are sequences of code points below 256, their       *)
(* length in bytes that of their UTF-8 encoding.                           *)

\* strings.Contains
Contains(str, sub) ==
    \E i \in 1..(Len(str) - Len(sub) + 1) : \A j \in 1..Len(sub) : str[i + j - 1] = sub[j]

Range(f) == {f[i] : i \in DOMAIN f}

\* unicode.IsUpper, IsLower and IsDigit on the code points below 256
Between(char, lo, hi) == lo <= char /\ char <= hi
IsUpper(char) == Between(char, 65, 90) \/ Between(char, 192, 214) \/ Between(char, 216, 222)
IsLower(char) == Between(char, 97, 122) \/ char = 181 \/ Between(char, 223, 246) \/ Between(char, 248, 255)
IsDigit(char) == Between(char, 48, 57)

\* strings.ToLower on the code points below 256
ToLower(str) == [i \in DOMAIN str |-> IF IsUpper(str[i]) THEN str[i] + 32 ELSE str[i]]

\* the bytes of the UTF-8 encoding of a code point, and len(str)
Utf8Len(char) == IF char < 128 THEN 1 ELSE IF char < 2048 THEN 2 ELSE IF char < 65536 THEN 3 ELSE 4
RECURSIVE ByteLen(_)
ByteLen(str) == IF str = <<>> THEN 0 ELSE Utf8Len(Head(str)) + ByteLen(Tail(str))

\* !@#$%^&*()_+-=[]{}|;:,.<>?
specialChars ==
    {33, 64, 35, 36, 37, 94, 38, 42, 40, 41, 95, 43, 45, 61, 91, 93, 123, 125, 124,
     59, 58, 44, 46, 60, 62, 63}

weakPatterns ==
    {<<49, 50, 51, 52, 53, 54>>,                    \* 123456
     <<112, 97, 115, 115, 119, 111, 114, 100>>,     \* password
     <<113, 119, 101, 114, 116, 121>>,              \* qwerty
     <<97, 98, 99, 49, 50, 51>>,                    \* abc123
     <<97, 100, 109, 105, 110>>,                    \* admin
     <<108, 101, 116, 109, 101, 105, 110>>,         \* letmein
     <<119, 101, 108, 99, 111, 109, 101>>,          \* welcome
     <<109, 111, 110, 107, 101, 121>>,              \* monkey
     <<100, 114, 97, 103, 111, 110>>,               \* dragon
     <<109, 97, 115, 116, 101, 114>>}               \* master

RepeatedMessage == "Password cannot contain more than 3 consecutive identical characters"

\* one round of the loop over the password: st is repeatedCount, prevChar
\* and whether the error has been appended
RepeatedStepNoReset(st, char) ==
    IF char = st.prevChar
    THEN [repeatedCount |-> st.repeatedCount + 1, prevChar |-> char,
          hit |-> st.repeatedCount + 1 >= 3]
    ELSE [st EXCEPT !.prevChar = char]
RepeatedStep(st, char) ==
    IF char = st.prevChar
    THEN [repeatedCount |-> st.repeatedCount + 1, prevChar |-> char,
          hit |-> st.repeatedCount + 1 >= 3]
    ELSE [repeatedCount |-> 0, prevChar |-> char, hit |-> FALSE]

RECURSIVE RepeatedScan(_, _)
RepeatedScan(st, rest) ==
    IF st.hit THEN TRUE
    ELSE IF rest = <<>> THEN FALSE
    ELSE RepeatedScan(RepeatedStep(st, Head(rest)), Tail(rest))

ValidatePasswordErrors(password) ==
    IF password = <<>> THEN <<"Password is required">>
    ELSE
        (IF ByteLen(password) < 8 THEN <<"Password must be at least 8 characters long">> ELSE <<>>)
        \o (IF ByteLen(password) > 128 THEN <<"Password is too long (maximum 128 characters)">> ELSE <<>>)
        \o (IF \E i \in DOMAIN password : IsUpper(password[i]) THEN <<>>
            ELSE <<"Password must contain at least one uppercase letter">>)
        \o (IF \E i \in DOMAIN password : IsLower(password[i]) THEN <<>>
            ELSE <<"Password must contain at least one lowercase letter">>)
        \o (IF \E i \in DOMAIN password : IsDigit(password[i]) THEN <<>>
            ELSE <<"Password must contain at least one digit">>)
        \o (IF \E i \in DOMAIN password :
                    /\ ~IsUpper(password[i]) /\ ~IsLower(password[i]) /\ ~IsDigit(password[i])
                    /\ password[i] \in specialChars
            THEN <<>>
            ELSE <<"Password must contain at least one special character (!@#$%^&*()_+-=[]{}|;:,.<>?)">>)
        \o (IF LET lower == ToLower(password)
                IN \E pattern \in weakPatterns : Contains(lower, pattern)
            THEN <<"Password contains common weak patterns">> ELSE <<>>)
        \o (IF RepeatedScan([repeatedCount |-> 0, prevChar |-> 0, hit |-> FALSE], password)
            THEN <<RepeatedMessage>> ELSE <<>>)

\* the characters of ^[a-zA-Z0-9_-]+$
IsUsernameChar(char) ==
    Between(char, 97, 122) \/ Between(char, 65, 90) \/ Between(char, 48, 57) \/ char \in {95, 45}

reservedNames ==
    {<<97, 100, 109, 105, 110>>,                                        \* admin
     <<97, 100, 109, 105, 110, 105, 115, 116, 114, 97, 116, 111, 114>>, \* administrator
     <<114, 111, 111, 116>>,                                            \* root
     <<115, 121, 115, 116, 101, 109>>,                                  \* system
     <<117, 115, 101, 114>>,                                            \* user
     <<103, 117, 101, 115, 116>>,                                       \* guest
     <<116, 101, 115, 116>>,                                            \* test
     <<100, 101, 109, 111>>,                                            \* demo
     <<97, 112, 105>>,                                                  \* api
     <<119, 119, 119>>,                                                 \* www
     <<109, 97, 105, 108>>,                                             \* mail
     <<102, 116, 112>>,                                                 \* ftp
     <<115, 117, 112, 112, 111, 114, 116>>,                             \* support
     <<105, 110, 102, 111>>,                                            \* info
     <<104, 101, 108, 112>>,                                            \* help
     <<99, 111, 110, 116, 97, 99, 116>>,                                \* contact
     <<115, 97, 108, 101, 115>>,                                        \* sales
     <<109, 97, 114, 107, 101, 116, 105, 110, 103>>,                    \* marketing
     <<115, 101, 99, 117, 114, 105, 116, 121>>,                         \* security
     <<110, 117, 108, 108>>,                                            \* null
     <<117, 110, 100, 101, 102, 105, 110, 101, 100>>,                   \* undefined
     <<97, 110, 111, 110, 121, 109, 111, 117, 115>>,                    \* anonymous
     <<112, 117, 98, 108, 105, 99>>,                                    \* public
     <<112, 114, 105, 118, 97, 116, 101>>}                              \* private

suspiciousPatterns ==
    {<<60, 115, 99, 114, 105, 112, 116>>,                               \* <script
     <<106, 97, 118, 97, 115, 99, 114, 105, 112, 116, 58>>,             \* javascript:
     <<118, 98, 115, 99, 114, 105, 112, 116, 58>>,                      \* vbscript:
     <<111, 110, 108, 111, 97, 100, 61>>,                               \* onload=
     <<111, 110, 101, 114, 114, 111, 114, 61>>,                         \* onerror=
     <<111, 110, 99, 108, 105, 99, 107, 61>>,                           \* onclick=
     <<101, 118, 97, 108, 40>>,                                         \* eval(
     <<97, 108, 101, 114, 116, 40>>}                                    \* alert(

ValidateUsername(name) ==
    IF name = <<>> THEN <<"Username is required">>
    ELSE LET username == TrimSpace(name)
             usernameLower == ToLower(username)
         IN (IF ByteLen(username) < 3 THEN <<"Username must be at least 3 characters long">> ELSE <<>>)
            \o (IF ByteLen(username) > 50 THEN <<"Username is too long (maximum 50 characters)">> ELSE <<>>)
            \o (IF username # <<>> /\ \A i \in DOMAIN username : IsUsernameChar(username[i]) THEN <<>>
                ELSE <<"Username can only contain letters, numbers, underscores, and hyphens">>)
            \o (IF usernameLower \in reservedNames
                THEN <<"This username is reserved and cannot be used">> ELSE <<>>)
            \o (IF \E pattern \in suspiciousPatterns : Contains(usernameLower, pattern)
                THEN <<"Username contains invalid characters">> ELSE <<>>)

\* ValidatePassword, the errors of the passwords above being computed once
ValidatePasswordTable == [pw \in KnownPasswords |-> ValidatePasswordErrors(pw)]
ValidatePassword(password) ==
    IF password \in KnownPasswords THEN ValidatePasswordTable[password]
    ELSE ValidatePasswordErrors(password)

\* ^[a-zA-Z0-9._%+-]+@[a-zA-Z0-9.-]+\.[a-zA-Z]{2,}$ : the last label holds
\* letters only, so the dot before it is the last dot of the string
IsAsciiLetter(char) == Between(char, 65, 90) \/ Between(char, 97, 122)
IsLocalChar(char) == IsAsciiLetter(char) \/ IsDigit(char) \/ char \in {46, 95, 37, 43, 45}
IsDomainChar(char) == IsAsciiLetter(char) \/ IsDigit(char) \/ char \in {46, 45}
emailRegex(email) ==
    \E at \in 2..Len(email), dot \in 4..(Len(email) - 2) :
        /\ email[at] = 64 /\ email[dot] = 46 /\ at + 1 < dot
        /\ \A i \in 1..(at - 1) : IsLocalChar(email[i])
        /\ \A i \in (at + 1)..(dot - 1) : IsDomainChar(email[i])
        /\ \A i \in (dot + 1)..Len(email) : IsAsciiLetter(email[i])

emailSuspiciousPatterns ==
    {<<60, 115, 99, 114, 105, 112, 116>>,                               \* <script
     <<106, 97, 118, 97, 115, 99, 114, 105, 112, 116, 58>>,             \* javascript:
     <<118, 98, 115, 99, 114, 105, 112, 116, 58>>,                      \* vbscript:
     <<111, 110, 108, 111, 97, 100, 61>>,                               \* onload=
     <<111, 110, 101, 114, 114, 111, 114, 61>>,                         \* onerror=
     <<111, 110, 99, 108, 105, 99, 107, 61>>}                           \* onclick=

ValidateEmailErrors(address) ==
    IF address = <<>> THEN <<"Email is required">>
    ELSE LET email == TrimSpace(address)
             emailLower == ToLower(email)
         IN (IF ByteLen(email) > 254 THEN <<"Email is too long (maximum 254 characters)">> ELSE <<>>)
            \o (IF ~emailRegex(email) THEN <<"Invalid email format">> ELSE <<>>)
            \o (IF \E pattern \in emailSuspiciousPatterns : Contains(emailLower, pattern)
                THEN <<"Email contains invalid characters">> ELSE <<>>)

\* ValidateEmail, the errors of the addresses of the requests being computed
\* once
KnownEmails == {<<>>, EmailOne, EmailNobody, EmailBad, EmailUpper}
ValidateEmailTable == [email \in KnownEmails |-> ValidateEmailErrors(email)]
ValidateEmail(email) ==
    IF email \in KnownEmails THEN ValidateEmailTable[email] ELSE ValidateEmailErrors(email)

SanitizeInput(input) ==
    LET noNull == SelectSeq(input, LAMBDA r : r # 0)
        trimmed == TrimSpace(noNull)
    IN  SelectSeq(trimmed, LAMBDA r : r >= 32 \/ r = 10 \/ r = 9)

NoCall == [fn |-> "", arg |-> <<>>, result |-> <<>>]

ValidatePasswordCall ==
    /\ call.fn = ""
    /\ call' = [call EXCEPT !.fn = "ValidatePassword", !.result = ValidatePassword(call.arg)]
    /\ UNCHANGED <<now, authVars, hist, csrfVars, tokVars, mwVars, gate, procLog>>

SanitizeInputCall ==
    /\ call.fn = ""
    /\ call' = [call EXCEPT !.fn = "SanitizeInput", !.result = SanitizeInput(call.arg)]
    /\ UNCHANGED <<now, authVars, hist, csrfVars, tokVars, mwVars, gate, procLog>>

----------------------------------------------------------------------------
(* AuthHandler.Login.  in is the request with the body as it was sent,     *)
(* creds the three fields after SanitizeInput, which is what the handler   *)
(* validates, looks up, compares and writes to the audit log.  The         *)
(* handler is cut where it touches another shared store: LoginGate is the  *)
(* rate limiter; LoginDetect the audit query and the input checks;         *)
(* LoginLoad the SELECT with the lock and password checks on the row read; *)
(* LoginStore the UPDATE and everything after it.                          *)

\* utf8mb4_unicode_ci, the collation of every text column: letters compare
\* without their case and trailing spaces are not compared (PAD SPACE).
\* Usernames and addresses are drawn from printable ASCII.
CaseFold(char) == IF char \in 65..90 THEN char + 32 ELSE char
RECURSIVE StripPad(_)
StripPad(str) ==
    IF str # <<>> /\ str[Len(str)] = 32 THEN StripPad(SubSeq(str, 1, Len(str) - 1)) ELSE str
CollationKey(str) == [i \in 1..Len(StripPad(str)) |-> CaseFold(str[i])]

\* SELECT ... FROM users WHERE email = ?   (email is UNIQUE)
SelectByEmail(email) ==
    IF \E id \in DOMAIN users : CollationKey(users[id].email) = CollationKey(email)
    THEN CHOOSE id \in DOMAIN users : CollationKey(users[id].email) = CollationKey(email)
    ELSE NoUser

\* user.LockedUntil != nil && time.Now().Before(*user.LockedUntil)
IsLockedLate(user) == user.lockedUntil # NoTime /\ now <= user.lockedUntil
IsLocked(user) == user.lockedUntil # NoTime /\ now < user.lockedUntil

\* the lockedUntil written with the incremented counter
NewLockedUntilFifthOnly(newFailedAttempts) ==
    IF newFailedAttempts = LockThreshold THEN now + LockMinutes ELSE NoTime
NewLockedUntilOffByOne(newFailedAttempts) ==
    IF newFailedAttempts > LockThreshold THEN now + LockMinutes ELSE NoTime
NewLockedUntil(newFailedAttempts) ==
    IF newFailedAttempts >= LockThreshold THEN now + LockMinutes ELSE NoTime

\* the answers of the two "wrong credentials" branches and of the MFA branch
UserNotFoundRevealed == Response(401, "error", "User not found")
UserNotFoundResponse == Response(401, "error", "Invalid credentials")
InvalidPasswordResponse == Response(401, "error", "Invalid credentials")
MfaRequiredGeneric == Response(401, "error", "Invalid credentials")
MfaRequiredResponse == Response(401, "message", "MFA required")

\* the MFA step on the row read by the request
MfaCheck(user, mfaCode) ==
    IF ~user.mfaEnabled THEN "ok"
    ELSE IF mfaCode = <<>> THEN "required"
    ELSE IF ~TotpValidate(mfaCode, user.mfaSecret) THEN "invalid"
    ELSE "ok"

\* UPDATE users SET failed_attempts = ?, locked_until = ? WHERE id = ?
UpdateLockout(id, failedAttempts, lockedUntil) ==
    IF id \in DOMAIN users
    THEN [users EXCEPT ![id].failedAttempts = failedAttempts, ![id].lockedUntil = lockedUntil]
    ELSE users

\* creds.Email, creds.Password and creds.MFACode after the three assignments
\* that follow the decoding of the body
Sanitized(in) ==
    [email |-> SanitizeInput(in.email), password |-> SanitizeInput(in.password),
     mfaCode |-> SanitizeInput(in.mfaCode)]

\* the users table after the password of req verified
ResetAfterMfa(req) ==
    IF MfaCheck(req.user, Sanitized(req.in).mfaCode) = "ok" THEN UpdateLockout(req.uid, 0, NoTime) ELSE users
ResetOnMatch(req) == UpdateLockout(req.uid, 0, NoTime)

\* the suspicious-activity query made before the limiter is consulted
LoginGateSuspiciousFirst(s, in) ==
    /\ Free(s)
    /\ LET ip == in.remoteAddr
           a == Allow(rl, ip, now)
           req == [Idle EXCEPT !.op = "login", !.in = in]
       IN IF DetectSuspiciousActivity(ip, SuspiciousWindow, TRUE)
          THEN /\ rl' = rl
               /\ Return(s, req,
                         <<LogSecurityEvent(in, "SUSPICIOUS_ACTIVITY", "Multiple failed attempts detected")>>,
                         Response(403, "error", "Account temporarily restricted due to suspicious activity"))
          ELSE /\ rl' = a.rl
               /\ IF ~a.ok
                  THEN Return(s, req, <<LogSecurityEvent(in, "RATE_LIMIT_EXCEEDED", "Too many login attempts")>>,
                              Response(429, "error", "Too many login attempts"))
                  ELSE /\ reqs' = Put(s, [req EXCEPT !.pc = "gate", !.passed = {"rate"}])
                       /\ UNCHANGED auditPending
    /\ UNCHANGED <<now, users, auditDB, streak, hist, csrfVars, tokVars, edgeVars>>
\* the request arrives: ip := r.RemoteAddr and h.rateLimiter.Allow(ip)
LoginGate(s, in) ==
    /\ Free(s)
    /\ LET ip == in.remoteAddr
           a == Allow(rl, ip, now)
           req == [Idle EXCEPT !.op = "login", !.in = in]
       IN /\ rl' = a.rl
          /\ IF ~a.ok
             THEN Return(s, req, <<LogSecurityEvent(in, "RATE_LIMIT_EXCEEDED", "Too many login attempts")>>,
                         Response(429, "error", "Too many login attempts"))
             ELSE /\ reqs' = Put(s, [req EXCEPT !.pc = "gate", !.passed = {"rate"}])
                  /\ UNCHANGED auditPending
    /\ UNCHANGED <<now, users, auditDB, streak, hist, csrfVars, tokVars, edgeVars>>

\* the COUNT(*) of DetectSuspiciousActivity on audit_logs, then the decoding
\* of the body, SanitizeInput on its three fields and ValidateEmail, which
\* touch nothing shared
LoginDetect(s, queryOk) ==
    /\ reqs[s].op = "login" /\ reqs[s].pc = "gate"
    /\ LET req == reqs[s]
           in == req.in
           ip == in.remoteAddr
       IN IF DetectSuspiciousActivity(ip, SuspiciousWindow, queryOk)
          THEN Return(s, req,
                      <<LogSecurityEvent(in, "SUSPICIOUS_ACTIVITY", "Multiple failed attempts detected")>>,
                      Response(403, "error", "Account temporarily restricted due to suspicious activity"))
          ELSE IF ~in.bodyOk
          THEN Return(s, [req EXCEPT !.passed = {"rate", "gate"}],
                      <<LogSecurityEvent(in, "VALIDATION_FAILED", "Invalid request body")>>,
                      Response(400, "error", "Invalid request body"))
          ELSE IF ValidateEmail(Sanitized(in).email) # <<>>
          THEN Return(s, [req EXCEPT !.passed = {"rate", "gate"}],
                      <<LogAuthEvent(in, "VALIDATION_FAILED", <<>>, Sanitized(in).email,
                                     "Invalid email format")>>,
                      Response(400, "error", "Invalid email format"))
          ELSE /\ reqs' = Put(s, [req EXCEPT !.pc = "load", !.passed = {"rate", "gate", "valid"}])
               /\ UNCHANGED auditPending
    /\ UNCHANGED <<now, users, rl, auditDB, streak, hist, csrfVars, tokVars, edgeVars>>

\* an attempt made during a lock counted like a mismatch
LoginLoadCountsLocked(s) ==
    /\ reqs[s].op = "login" /\ reqs[s].pc = "load"
    /\ LET req == reqs[s]
           in == req.in
           creds == Sanitized(in)
           id == SelectByEmail(creds.email)
       IN IF id = NoUser
          THEN /\ Return(s, req, <<LogAuthEvent(in, "LOGIN_FAILED", <<>>, creds.email, "User not found")>>,
                         UserNotFoundResponse)
               /\ UNCHANGED users
          ELSE LET user == users[id]
                   found == [req EXCEPT !.uid = id, !.user = user, !.at = now, !.passed = @ \cup {"found"}]
               IN IF IsLocked(user)
                  THEN /\ Return(s, found,
                                 <<LogAuthEvent(in, "LOGIN_FAILED", user.id, user.email, "Account locked")>>,
                                 Response(403, "error", "Account is temporarily locked"))
                       /\ users' = UpdateLockout(id, user.failedAttempts + 1, now + LockMinutes)
                  ELSE /\ reqs' = Put(s,
                                      [found EXCEPT !.pc = "store",
                                                    !.passed = @ \cup {"unlocked"},
                                                    !.pwOk = CompareHashAndPassword(user.passwordHash, creds.password)])
                       /\ UNCHANGED <<auditPending, users>>
    /\ UNCHANGED <<now, rl, auditDB, streak, hist, csrfVars, tokVars, edgeVars>>
LoginLoad(s) ==
    /\ reqs[s].op = "login" /\ reqs[s].pc = "load"
    /\ LET req == reqs[s]
           in == req.in
           creds == Sanitized(in)
           id == SelectByEmail(creds.email)
       IN IF id = NoUser
          THEN Return(s, req, <<LogAuthEvent(in, "LOGIN_FAILED", <<>>, creds.email, "User not found")>>,
                      UserNotFoundResponse)
          ELSE LET user == users[id]
                   found == [req EXCEPT !.uid = id, !.user = user, !.at = now, !.passed = @ \cup {"found"}]
               IN IF IsLocked(user)
                  THEN Return(s, found,
                              <<LogAuthEvent(in, "LOGIN_FAILED", user.id, user.email, "Account locked")>>,
                              Response(403, "error", "Account is temporarily locked"))
                  ELSE /\ reqs' = Put(s,
                                      [found EXCEPT !.pc = "store",
                                                    !.passed = @ \cup {"unlocked"},
                                                    !.pwOk = CompareHashAndPassword(user.passwordHash, creds.password)])
                       /\ UNCHANGED auditPending
    /\ UNCHANGED <<now, users, rl, auditDB, streak, hist, csrfVars, tokVars, edgeVars>>

LoginStore(s) ==
    /\ reqs[s].op = "login" /\ reqs[s].pc = "store"
    /\ LET req == reqs[s]
           in == req.in
           user == req.user
           id == req.uid
       IN IF ~req.pwOk
          THEN LET newFailedAttempts == user.failedAttempts + 1
                   lockedUntil == NewLockedUntil(newFailedAttempts)
               IN /\ newFailedAttempts <= MaxFailed
                  /\ users' = UpdateLockout(id, newFailedAttempts, lockedUntil)
                  /\ streak' = [streak EXCEPT ![id] = @ + 1]
                  /\ Return(s, req,
                            <<LogAuthEvent(in, IF lockedUntil # NoTime THEN "ACCOUNT_LOCKED" ELSE "LOGIN_FAILED",
                                           user.id, user.email, "Invalid password")>>,
                            InvalidPasswordResponse)
          ELSE /\ users' = ResetOnMatch(req)
               /\ streak' = [streak EXCEPT ![id] = 0]
               /\ LET ok == [req EXCEPT !.passed = @ \cup {"password"}]
                      mfa == MfaCheck(user, Sanitized(in).mfaCode)
                  IN IF mfa = "required"
                     THEN Return(s, ok,
                                 <<LogAuthEvent(in, "LOGIN_FAILED", user.id, user.email, "MFA code required but not provided")>>,
                                 MfaRequiredResponse)
                     ELSE IF mfa = "invalid"
                     THEN Return(s, ok,
                                 <<LogAuthEvent(in, "LOGIN_MFA_FAILED", user.id, user.email, "Invalid MFA code")>>,
                                 Response(401, "error", "Invalid MFA code"))
                     ELSE Return(s, [ok EXCEPT !.passed = @ \cup (IF user.mfaEnabled THEN {"mfa"} ELSE {})],
                                 <<LogAuthEvent(in, "LOGIN_SUCCESS", user.id, user.email,
                                                IF user.mfaEnabled THEN "password_and_mfa" ELSE "password_only")>>,
                                 [status |-> 200, field |-> "user", text |-> id,
                                  cookies |-> {[name |-> "access_token", value |-> generateAccessToken(user.id)],
                                               [name |-> "refresh_token", value |-> generateRefreshToken(user.id)]}])
    /\ UNCHANGED <<now, rl, auditDB, hist, csrfVars, tokVars, edgeVars>>

----------------------------------------------------------------------------
(* go al.logToDatabase(event): the INSERT of a pending event.  When the    *)
(* INSERT fails the failure is printed to the process log and the event is  *)
(* dropped.                                                                 *)

\* a caller hands event to LogEvent; the goroutine started for the previous
\* event has finished
LogEventCall(event) ==
    /\ auditPending = EmptyBag
    /\ auditPending' = SetToBag({LogEvent(event)})
    /\ UNCHANGED <<now, users, rl, auditDB, reqs, streak, hist, csrfVars, tokVars, edgeVars>>

InsertFailedLine == "Failed to log audit event to database"

logToDatabaseSilent(e, insertOk) ==
    /\ BagIn(e, auditPending)
    /\ auditPending' = auditPending (-) SetToBag({e})
    /\ auditDB' = IF insertOk THEN auditDB (+) SetToBag({e}) ELSE auditDB
    /\ UNCHANGED <<now, users, rl, reqs, streak, hist, csrfVars, tokVars, edgeVars>>
logToDatabase(e, insertOk) ==
    /\ BagIn(e, auditPending)
    /\ auditPending' = auditPending (-) SetToBag({e})
    /\ auditDB' = IF insertOk THEN auditDB (+) SetToBag({e}) ELSE auditDB
    /\ procLog' = IF insertOk THEN procLog ELSE procLog \cup {InsertFailedLine}
    /\ UNCHANGED <<now, users, rl, reqs, streak, hist, csrfVars, tokVars, mwVars, gate, call>>

----------------------------------------------------------------------------
(* UserHandler.EnableMFA: one UPDATE with a freshly generated secret.      *)
(* userID is the value the handler finds in the request context.           *)

EnableMFA(s, userID, secret) ==
    /\ Free(s)
    /\ users' = IF userID \in DOMAIN users
                THEN [users EXCEPT ![userID].mfaSecret = secret, ![userID].mfaEnabled = TRUE]
                ELSE users
    /\ reqs' = Put(s,
                   [Idle EXCEPT !.op = "enableMFA", !.pc = "done", !.uid = userID,
                                !.resp = Response(200, "message", "MFA enabled successfully")])
    /\ UNCHANGED <<now, rl, auditDB, auditPending, streak, hist, csrfVars, tokVars, edgeVars>>

----------------------------------------------------------------------------
(* UserHandler.DisableMFA: the body decoded and the SELECT with the two    *)
(* checks on the row read, then the UPDATE.                                *)

DisableMFALoadNoCode(s, userID, bodyOk, password, mfaCode) ==
    /\ Free(s)
    /\ LET req == [Idle EXCEPT !.op = "disableMFA", !.uid = userID,
                               !.in = [bodyOk |-> bodyOk, password |-> password, mfaCode |-> mfaCode]]
       IN IF ~bodyOk
          THEN reqs' = Put(s, [req EXCEPT !.pc = "done", !.resp = Response(400, "text", "Invalid JSON")])
          ELSE IF userID \notin DOMAIN users
          THEN reqs' = Put(s,
                           [req EXCEPT !.pc = "done", !.resp = Response(404, "text", "User not found")])
          ELSE IF ~CompareHashAndPassword(users[userID].passwordHash, password)
          THEN reqs' = Put(s,
                           [req EXCEPT !.pc = "done", !.resp = Response(401, "text", "Invalid password")])
          ELSE reqs' = Put(s, [req EXCEPT !.pc = "store", !.user = users[userID]])
    /\ UNCHANGED <<now, users, rl, auditDB, auditPending, streak, hist, csrfVars, tokVars, edgeVars>>
DisableMFALoad(s, userID, bodyOk, password, mfaCode) ==
    /\ Free(s)
    /\ LET req == [Idle EXCEPT !.op = "disableMFA", !.uid = userID,
                               !.in = [bodyOk |-> bodyOk, password |-> password, mfaCode |-> mfaCode]]
       IN IF ~bodyOk
          THEN reqs' = Put(s, [req EXCEPT !.pc = "done", !.resp = Response(400, "text", "Invalid JSON")])
          ELSE IF userID \notin DOMAIN users
          THEN reqs' = Put(s,
                           [req EXCEPT !.pc = "done", !.resp = Response(404, "text", "User not found")])
          ELSE IF ~CompareHashAndPassword(users[userID].passwordHash, password)
          THEN reqs' = Put(s,
                           [req EXCEPT !.pc = "done", !.resp = Response(401, "text", "Invalid password")])
          ELSE IF ~TotpValidate(mfaCode, users[userID].mfaSecret)
          THEN reqs' = Put(s,
                           [req EXCEPT !.pc = "done", !.resp = Response(401, "text", "Invalid MFA code")])
          ELSE reqs' = Put(s, [req EXCEPT !.pc = "store", !.user = users[userID]])
    /\ UNCHANGED <<now, users, rl, auditDB, auditPending, streak, hist, csrfVars, tokVars, edgeVars>>

DisableMFAStore(s) ==
    /\ reqs[s].op = "disableMFA" /\ reqs[s].pc = "store"
    /\ users' = [users EXCEPT ![reqs[s].uid].mfaSecret = "", ![reqs[s].uid].mfaEnabled = FALSE]
    /\ reqs' = Put(s, [reqs[s] EXCEPT !.pc = "done",
                                      !.resp = Response(200, "message", "MFA disabled successfully")])
    /\ UNCHANGED <<now, rl, auditDB, auditPending, streak, hist, csrfVars, tokVars, edgeVars>>

----------------------------------------------------------------------------
(* AuthHandler.Register, cut at each access to the users table: Register   *)
(* is the limiter and the checks of the body, RegisterSelectEmail and      *)
(* RegisterSelectUsername the two SELECTs, RegisterInsert the INSERT.      *)
(* UUID() gives the row an id no row has; mfa_enabled is not in the INSERT *)
(* and takes the column's default.  queryOk and insertOk are whether the   *)
(* statement runs without an error of the database.                        *)

\* the ids UUID() hands out, in the order the model names them
RowIds == <<"u1", "u2", "u3">>
FreeIds == {i \in DOMAIN RowIds : RowIds[i] \notin DOMAIN users}
NewId == RowIds[CHOOSE i \in FreeIds : \A j \in FreeIds : i <= j]

\* SELECT id FROM users WHERE username = ?
SelectByUsername(username) ==
    IF \E id \in DOMAIN users : CollationKey(users[id].username) = CollationKey(username)
    THEN CHOOSE id \in DOMAIN users : CollationKey(users[id].username) = CollationKey(username)
    ELSE NoUser

Register(s, in) ==
    /\ Free(s)
    /\ LET ip == in.remoteAddr
           a == Allow(rl, ip, now)
           req == [Idle EXCEPT !.op = "register", !.in = in]
           username == SanitizeInput(in.username)
           email == SanitizeInput(in.email)
           password == SanitizeInput(in.password)
       IN /\ rl' = a.rl
          /\ IF ~a.ok
             THEN Return(s, req,
                         <<LogSecurityEvent(in, "RATE_LIMIT_EXCEEDED", "Too many registration attempts")>>,
                         Response(429, "error", "Too many registration attempts"))
             ELSE IF ~in.bodyOk
             THEN Return(s, req, <<LogSecurityEvent(in, "VALIDATION_FAILED", "Invalid request body")>>,
                         Response(400, "error", "Invalid request body"))
             ELSE IF ValidateUsername(username) # <<>> \/ ValidateEmail(email) # <<>>
                        \/ ValidatePassword(password) # <<>>
             THEN Return(s, req,
                         <<LogAuthEvent(in, "VALIDATION_FAILED", <<>>, email, "Input validation failed")>>,
                         Response(400, "errors", "validation errors"))
             ELSE /\ reqs' = Put(s, [req EXCEPT !.pc = "selectEmail"])
                  /\ UNCHANGED auditPending
    /\ UNCHANGED <<now, users, auditDB, streak, hist, csrfVars, tokVars, edgeVars>>

RegisterSelectEmail(s, queryOk) ==
    /\ reqs[s].op = "register" /\ reqs[s].pc = "selectEmail"
    /\ LET req == reqs[s]
           in == req.in
       IN IF ~queryOk
          THEN Return(s, req, <<>>, Response(500, "error", "Internal server error"))
          ELSE IF SelectByEmail(SanitizeInput(in.email)) # NoUser
          THEN Return(s, req,
                      <<LogAuthEvent(in, "REGISTER_FAILED", <<>>, SanitizeInput(in.email),
                                     "Email already registered")>>,
                      Response(409, "error", "Email already registered"))
          ELSE /\ reqs' = Put(s, [req EXCEPT !.pc = "selectUsername"])
               /\ UNCHANGED auditPending
    /\ UNCHANGED <<now, users, rl, auditDB, streak, hist, csrfVars, tokVars, edgeVars>>

\* the second SELECT and, with no row found, the hashing of the password
RegisterSelectUsername(s, queryOk) ==
    /\ reqs[s].op = "register" /\ reqs[s].pc = "selectUsername"
    /\ LET req == reqs[s]
           in == req.in
       IN IF ~queryOk
          THEN Return(s, req, <<>>, Response(500, "error", "Internal server error"))
          ELSE IF SelectByUsername(SanitizeInput(in.username)) # NoUser
          THEN Return(s, req,
                      <<LogAuthEvent(in, "REGISTER_FAILED", <<>>, SanitizeInput(in.email),
                                     "Username already taken")>>,
                      Response(409, "error", "Username already taken"))
          ELSE IF ByteLen(SanitizeInput(in.password)) > BcryptMaxBytes
          THEN Return(s, req, <<>>, Response(500, "error", "Error hashing password"))
          ELSE /\ reqs' = Put(s, [req EXCEPT !.pc = "insert"])
               /\ UNCHANGED auditPending
    /\ UNCHANGED <<now, users, rl, auditDB, streak, hist, csrfVars, tokVars, edgeVars>>

\* the INSERT: failing with an error other than 1062 (insertOk false),
\* refused by a UNIQUE index (error 1062), or adding the row; LastInsertId
\* is 0 for a key that is not AUTO_INCREMENT
RegisterInsert(s, secret, insertOk) ==
    /\ reqs[s].op = "register" /\ reqs[s].pc = "insert"
    /\ LET req == reqs[s]
           in == req.in
           username == SanitizeInput(in.username)
           email == SanitizeInput(in.email)
           password == SanitizeInput(in.password)
       IN IF ~insertOk
          THEN /\ Return(s, req, <<>>, Response(500, "error", "Error creating user"))
               /\ UNCHANGED users
          ELSE IF SelectByEmail(email) # NoUser \/ SelectByUsername(username) # NoUser
          THEN /\ Return(s, req,
                         <<LogAuthEvent(in, "REGISTER_FAILED", <<>>, email, "Duplicate key constraint")>>,
                         Response(409, "error", "Email or username already exists"))
               /\ UNCHANGED users
          ELSE /\ FreeIds # {}
               /\ users' = [id \in DOMAIN users \cup {NewId} |->
                               IF id = NewId
                               THEN [id |-> Uuid[NewId], username |-> username, email |-> email,
                                     passwordHash |-> Hash(password),
                                     mfaSecret |-> secret, mfaEnabled |-> FALSE,
                                     failedAttempts |-> 0, lockedUntil |-> NoTime]
                               ELSE users[id]]
               /\ Return(s, [req EXCEPT !.uid = NewId],
                         <<LogAuthEvent(in, "REGISTER_SUCCESS", <<48>>, email, username)>>,
                         Response(201, "message", "User registered successfully"))
    /\ UNCHANGED <<now, rl, auditDB, streak, hist, csrfVars, tokVars, edgeVars>>

----------------------------------------------------------------------------
(* UserHandler.UpdateProfile: the body decoded, then one UPDATE of the     *)
(* username and the e-mail address, neither validated.  The UPDATE fails   *)
(* when another row holds the username or the address (both are UNIQUE),   *)
(* or with an error of the database (in.dbOk false).                       *)

UpdateProfile(s, userID, in) ==
    /\ Free(s)
    /\ LET req == [Idle EXCEPT !.op = "updateProfile", !.uid = userID, !.in = in]
           taken == \E id \in DOMAIN users \ {userID} :
                        \/ CollationKey(users[id].username) = CollationKey(in.username)
                        \/ CollationKey(users[id].email) = CollationKey(in.email)
       IN IF ~in.bodyOk
          THEN /\ reqs' = Put(s, [req EXCEPT !.pc = "done", !.resp = Response(400, "text", "Invalid JSON")])
               /\ UNCHANGED users
          ELSE IF ~in.dbOk \/ (userID \in DOMAIN users /\ taken)
          THEN /\ reqs' = Put(s, [req EXCEPT !.pc = "done",
                                            !.resp = Response(500, "text", "Failed to update profile")])
               /\ UNCHANGED users
          ELSE /\ users' = IF userID \in DOMAIN users
                           THEN [users EXCEPT ![userID].username = in.username, ![userID].email = in.email]
                           ELSE users
               /\ reqs' = Put(s, [req EXCEPT !.pc = "done",
                                            !.resp = Response(200, "message", "Profile updated successfully")])
    /\ UNCHANGED <<now, rl, auditDB, auditPending, streak, hist, csrfVars, tokVars, edgeVars>>

----------------------------------------------------------------------------
(* AuthHandler.ChangePassword for the userID the Authenticate middleware   *)
(* put into the context: the checks on the row read, then the UPDATE.      *)
(* The two passwords and the MFA code pass through SanitizeInput first.     *)

\* the checks between the SELECT and the UPDATE, in their order
ChangePasswordChecksAllowSame(user, currentPassword, newPassword, mfaCode) ==
    IF ~CompareHashAndPassword(user.passwordHash, currentPassword) THEN "current"
    ELSE IF user.mfaEnabled /\ mfaCode = <<>> THEN "required"
    ELSE IF user.mfaEnabled /\ ~TotpValidate(mfaCode, user.mfaSecret) THEN "invalid"
    ELSE "ok"
ChangePasswordChecks(user, currentPassword, newPassword, mfaCode) ==
    IF ~CompareHashAndPassword(user.passwordHash, currentPassword) THEN "current"
    ELSE IF CompareHashAndPassword(user.passwordHash, newPassword) THEN "same"
    ELSE IF user.mfaEnabled /\ mfaCode = <<>> THEN "required"
    ELSE IF user.mfaEnabled /\ ~TotpValidate(mfaCode, user.mfaSecret) THEN "invalid"
    ELSE "ok"

ChangePasswordLoad(s, userID, in) ==
    /\ Free(s)
    /\ LET req == [Idle EXCEPT !.op = "changePassword", !.uid = userID, !.in = in]
           currentPassword == SanitizeInput(in.currentPassword)
           newPassword == SanitizeInput(in.newPassword)
       IN IF ~in.bodyOk
          THEN Return(s, req,
                      <<LogSecurityEvent(in, "VALIDATION_FAILED", "Invalid request body for password change")>>,
                      Response(400, "text", "Invalid request body"))
          ELSE IF ValidatePassword(newPassword) # <<>>
          THEN Return(s, req,
                      <<LogAuthEvent(in, "VALIDATION_FAILED", IdOf(userID), <<>>, "New password validation failed")>>,
                      Response(400, "errors", "validation errors"))
          ELSE IF userID \notin DOMAIN users
          THEN Return(s, req, <<>>, Response(404, "text", "User not found"))
          ELSE LET user == users[userID]
                   found == [req EXCEPT !.user = user, !.at = now]
                   checks == ChangePasswordChecks(user, currentPassword, newPassword, SanitizeInput(in.mfaCode))
               IN CASE checks = "current" ->
                        Return(s, found,
                               <<LogAuthEvent(in, "VALIDATION_FAILED", IdOf(userID), user.email,
                                              "Current password verification failed")>>,
                               Response(401, "text", "Current password is incorrect"))
                    [] checks = "same" ->
                        Return(s, found,
                               <<LogAuthEvent(in, "VALIDATION_FAILED", IdOf(userID), user.email,
                                              "New password same as current password")>>,
                               Response(400, "text", "New password must be different from current password"))
                    [] checks = "required" ->
                        Return(s, found, <<>>, Response(401, "text", "MFA code required for password change"))
                    [] checks = "invalid" ->
                        Return(s, found,
                               <<LogAuthEvent(in, "VALIDATION_FAILED", IdOf(userID), user.email,
                                              "MFA verification failed for password change")>>,
                               Response(401, "text", "Invalid MFA code"))
                    [] OTHER ->
                        /\ reqs' = Put(s, [found EXCEPT !.pc = "store"])
                        /\ UNCHANGED auditPending
    /\ UNCHANGED <<now, users, rl, auditDB, streak, hist, csrfVars, tokVars, edgeVars>>

\* the hashing of the new password and the UPDATE, which runs without an
\* error of the database or not
ChangePasswordStore(s, updateOk) ==
    /\ reqs[s].op = "changePassword" /\ reqs[s].pc = "store"
    /\ LET req == reqs[s]
           id == req.uid
           newPassword == SanitizeInput(req.in.newPassword)
       IN IF ByteLen(newPassword) > BcryptMaxBytes
          THEN /\ Return(s, req, <<>>, Response(500, "text", "Error hashing new password"))
               /\ UNCHANGED users
          ELSE IF ~updateOk
          THEN /\ Return(s, req, <<>>, Response(500, "text", "Error updating password"))
               /\ UNCHANGED users
          ELSE /\ users' = IF id \in DOMAIN users
                           THEN [users EXCEPT ![id].passwordHash = Hash(newPassword)]
                           ELSE users
               /\ Return(s, req,
                         <<LogAuthEvent(req.in, "PASSWORD_CHANGED", req.user.id, req.user.email,
                                        IF req.user.mfaEnabled THEN "password_and_mfa" ELSE "password_only")>>,
                         Response(200, "message", "Password changed successfully"))
    /\ UNCHANGED <<now, rl, auditDB, streak, hist, csrfVars, tokVars, edgeVars>>

----------------------------------------------------------------------------
(* AuthHandler.Logout with tok in the access_token cookie *)

Logout(s, r, tok) ==
    /\ Free(s)
    /\ LET userID == IF tok # NoToken /\ ParseToken(tok, JwtSecret) THEN Utf8(tok.sub) ELSE <<>>
       IN Return(s, [Idle EXCEPT !.op = "logout", !.in = r],
                 <<LogAuthEvent(r, "LOGOUT_SUCCESS", userID, <<>>, "manual")>>,
                 [status |-> 200, field |-> "message", text |-> "Logged out successfully",
                  cookies |-> {[name |-> "access_token", value |-> NoToken],
                               [name |-> "refresh_token", value |-> NoToken]}])
    /\ UNCHANGED <<now, users, rl, auditDB, streak, hist, csrfVars, tokVars, edgeVars>>

----------------------------------------------------------------------------
(* The credential lookups when the SELECT fails with an error other than   *)
(* sql.ErrNoRows, and the UPDATEs of Login, EnableMFA and DisableMFA when   *)
(* they fail.                                                              *)

\* Login
LoginLoadFails(s) ==
    /\ reqs[s].op = "login" /\ reqs[s].pc = "load"
    /\ Return(s, reqs[s], <<>>, Response(500, "error", "Internal server error"))
    /\ UNCHANGED <<now, users, rl, auditDB, streak, hist, csrfVars, tokVars, edgeVars>>

\* RefreshToken, the cookie having been read and verified
RefreshTokenFails(p) ==
    /\ p.tok # NoToken /\ ParseToken(p.tok, RefreshSecret)
    /\ verdict' = [by |-> "RefreshToken", src |-> p.src, id |-> p.id, tok |-> p.tok, at |-> now,
                   ok |-> FALSE, status |-> 500, sub |-> <<>>]
    /\ UNCHANGED <<now, authVars, hist, csrfVars, jar, spent, edgeVars>>

\* ChangePassword, the body having been decoded and the new password validated
ChangePasswordFails(s, userID, in) ==
    /\ Free(s)
    /\ in.bodyOk /\ ValidatePassword(SanitizeInput(in.newPassword)) = <<>>
    /\ Return(s, [Idle EXCEPT !.op = "changePassword", !.uid = userID, !.in = in], <<>>,
              Response(404, "text", "User not found"))
    /\ UNCHANGED <<now, users, rl, auditDB, streak, hist, csrfVars, tokVars, edgeVars>>

\* DisableMFA, the body having been decoded
DisableMFAFails(s, userID, password, mfaCode) ==
    /\ Free(s)
    /\ reqs' = Put(s, [Idle EXCEPT !.op = "disableMFA", !.pc = "done", !.uid = userID,
                                   !.in = [bodyOk |-> TRUE, password |-> password, mfaCode |-> mfaCode],
                                   !.resp = Response(404, "text", "User not found")])
    /\ UNCHANGED <<now, users, rl, auditDB, auditPending, streak, hist, csrfVars, tokVars, edgeVars>>

\* Login, the UPDATE of the mismatch or of the reset failing
LoginStoreFails(s) ==
    /\ reqs[s].op = "login" /\ reqs[s].pc = "store"
    /\ Return(s, reqs[s], <<>>, Response(500, "error", "Internal server error"))
    /\ UNCHANGED <<now, users, rl, auditDB, streak, hist, csrfVars, tokVars, edgeVars>>

\* EnableMFA, the UPDATE failing
EnableMFAFails(s, userID) ==
    /\ Free(s)
    /\ reqs' = Put(s, [Idle EXCEPT !.op = "enableMFA", !.pc = "done", !.uid = userID,
                                   !.resp = Response(500, "text", "Failed to enable MFA")])
    /\ UNCHANGED <<now, users, rl, auditDB, auditPending, streak, hist, csrfVars, tokVars, edgeVars>>

\* DisableMFA, the UPDATE failing
DisableMFAStoreFails(s) ==
    /\ reqs[s].op = "disableMFA" /\ reqs[s].pc = "store"
    /\ reqs' = Put(s, [reqs[s] EXCEPT !.pc = "done",
                                      !.resp = Response(500, "text", "Failed to disable MFA")])
    /\ UNCHANGED <<now, users, rl, auditDB, auditPending, streak, hist, csrfVars, tokVars, edgeVars>>

----------------------------------------------------------------------------
(* The request context between Authenticate and a protected handler.  A    *)
(* context key is an interface value, that is a dynamic type and a value;  *)
(* ctx.Value(key) finds the entry whose key equals key in both.            *)

UserIDKey == [type |-> "middleware.contextKey", value |-> "userID"]

\* the key the handlers pass to r.Context().Value
HandlerKey == [type |-> "string", value |-> "userID"]

\* context.WithValue(context.Background(), key, val)
WithValue(key, val) == [k \in {key} |-> val]

\* ctx.Value(key); nil when no entry has that key
Value(ctx, key) ==
    IF key \in DOMAIN ctx THEN [nil |-> FALSE, val |-> ctx[key]] ELSE [nil |-> TRUE, val |-> <<>>]

\* the handlers setupRoutes puts behind Authenticate
ProtectedOps == {"getProfile", "updateProfile", "enableMFA", "disableMFA"}

\* UserHandler.GetProfile for the userID found in the context; queryOk is
\* whether the SELECT runs without an error of the database
GetProfile(s, userID, queryOk) ==
    /\ Free(s)
    /\ reqs' = Put(s, [Idle EXCEPT !.op = "getProfile", !.pc = "done", !.uid = userID,
                                   !.resp = IF ~queryOk
                                            THEN Response(500, "text", "Database error")
                                            ELSE IF userID \in DOMAIN users
                                            THEN Response(200, "user", userID)
                                            ELSE Response(404, "text", "User not found")])
    /\ UNCHANGED <<now, users, rl, auditDB, auditPending, streak, hist, csrfVars, tokVars, edgeVars>>

\* the goroutine serving request s panics before the handler has done
\* anything: net/http recovers, logs the panic and closes the connection
\* without a response
Panics(s, op, tok, message) ==
    /\ Free(s)
    /\ reqs' = Put(s, [Idle EXCEPT !.op = op, !.pc = "done", !.in = [tok |-> tok],
                                   !.passed = {"auth"}, !.resp = Response(0, "panic", message)])
    /\ UNCHANGED <<now, users, rl, auditDB, auditPending, streak, hist, csrfVars, tokVars, edgeVars>>

\* a request for a protected route with tok in its access_token cookie:
\* Authenticate, then the handler, which starts with
\* userID := r.Context().Value("userID").(string)
Protected(s, op, tok, in) ==
    LET a == Authenticate(tok)
        ctx == WithValue(UserIDKey, a.sub)
        v == Value(ctx, HandlerKey)
    IN IF ~a.ok
       THEN /\ Free(s)
            /\ reqs' = Put(s, [Idle EXCEPT !.op = op, !.pc = "done", !.in = [tok |-> tok],
                                           !.resp = Response(401, "text", "Unauthorized")])
            /\ UNCHANGED <<now, users, rl, auditDB, auditPending, streak, hist, csrfVars, tokVars,
                           edgeVars>>
       ELSE IF v.nil
       THEN Panics(s, op, tok, "interface conversion: interface {} is nil, not string")
       ELSE CASE op = "updateProfile" -> UpdateProfile(s, SelectById(v.val), in)
              [] op = "enableMFA" -> EnableMFA(s, SelectById(v.val), "s1")
              [] op = "disableMFA" ->
                    DisableMFALoad(s, SelectById(v.val), in.bodyOk, in.currentPassword, in.mfaCode)
              [] OTHER -> GetProfile(s, SelectById(v.val), in.dbOk)

----------------------------------------------------------------------------
(* The clock *)

TickSteps == {15}

Tick(d) ==
    /\ now + d <= MaxTime
    /\ now' = now + d
    /\ UNCHANGED <<authVars, hist, csrfVars, tokVars, edgeVars>>

----------------------------------------------------------------------------
(* Initial state: the principals are registered (Register stores a secret  *)
(* and leaves mfa_enabled at its default), nothing is in flight.           *)

UsernameOne == <<98, 111, 98>>      \* bob
UsernameTwo == <<97, 109, 121>>     \* amy
Registered(id) ==
    [id |-> Uuid[id], username |-> UsernameOne, email |-> EmailOne, passwordHash |-> Hash(PasswordOne),
     mfaSecret |-> "s1", mfaEnabled |-> FALSE, failedAttempts |-> 0, lockedUntil |-> NoTime]

\* the limiter of NewAuthHandler, having already counted n requests of a
\* client in the window that started at time 0 (Login and Register share it)
WarmLimiter(key, n) ==
    [NewRateLimiter(AuthRateLimit, AuthRateWindow) EXCEPT
        !.requests = IF n = 0 THEN <<>> ELSE [k \in {key} |-> [count |-> n, startTime |-> 0]]]

\* the address among those of the requests that ValidateEmail turns down
MalformedEmails == {EmailBad}
Emails == {EmailOne, EmailNobody} \cup MalformedEmails

Client == [remoteAddr |-> <<"h1", "p1">>, headers |-> NoHeaders, xff |-> <<>>]

\* no limiter call, CSRF token or token verification has happened yet
InitTables ==
    /\ hist = <<>>
    /\ csrf = NewCSRFProtection
    /\ csrfIssued = 0
    /\ csrfTrue = [t \in TokenNames |-> 0]
    /\ csrfLast = [token |-> EmptyToken, ok |-> FALSE]
    /\ verdict = NoVerdict
    /\ spent = {}
    /\ gate = NoGate
    /\ procLog = {}

InitFresh == InitTables /\ call = NoCall

MwIps == {<<"h1">>, <<"h2">>}

\* the middleware after n requests of the client, served one by one in the
\* window that started at time 0 (and may be over by now)
WarmMiddleware(n) ==
    /\ mw = IF n = 0 THEN [limiter |-> <<>>, heap |-> <<>>]
            ELSE [limiter |-> [k \in {StripPort(Client.remoteAddr)} |-> 1],
                  heap |-> <<[count |-> n, firstRequest |-> 0]>>]
    /\ mwReqs = [s \in Slots |-> MwIdle]
    /\ mwAdmitted = [ip \in MwIps |->
                        IF ip = StripPort(Client.remoteAddr) /\ now <= MwWindow THEN n ELSE 0]
    /\ mwServed = 0

InitOther ==
    /\ InitFresh
    /\ jar = NoPair
    /\ WarmMiddleware(0)

InitStore ==
    /\ users = [id \in Principals |-> Registered(id)]
    /\ auditDB = EmptyBag
    /\ auditPending = EmptyBag
    /\ reqs = [s \in Slots |-> Idle]
    /\ streak = [id \in Principals |-> 0]

Init ==
    /\ now = 0
    /\ InitStore
    /\ rl = WarmLimiter(Client.remoteAddr, AuthRateLimit - MaxLogins)
    /\ InitOther

\* the store of a server whose UUIDs are valid UTF-8, or are not
InitStoreAnyId ==
    /\ \E uuid \in IdValues : users = [id \in Principals |-> [Registered(id) EXCEPT !.id = uuid]]
    /\ auditDB = EmptyBag
    /\ auditPending = EmptyBag
    /\ reqs = [s \in Slots |-> Idle]
    /\ streak = [id \in Principals |-> 0]

InitTok ==
    /\ now = 0
    /\ InitStoreAnyId
    /\ rl = WarmLimiter(Client.remoteAddr, AuthRateLimit - MaxLogins)
    /\ InitOther

\* "Bob ", which the collation holds equal to "bob"
UsernamePadded == <<66, 111, 98, 32>>

\* bodies of PUT /users/me
ProfileInputs ==
    {[bodyOk |-> TRUE, dbOk |-> TRUE, username |-> UsernamePadded, email |-> EmailNobody]}
    \cup {[bodyOk |-> b[1], dbOk |-> b[2], username |-> UsernameTwo, email |-> EmailNobody] :
             b \in {<<TRUE, TRUE>>, <<TRUE, FALSE>>, <<FALSE, TRUE>>}}

\* the body among them that moves a principal to another address
EmailChanges == {in \in ProfileInputs : in.bodyOk /\ in.dbOk /\ in.username = UsernamePadded}

\* every password and code for an address that may be registered; the
\* principal's credentials with whitespace around them and its address in
\* capitals; one body that does not parse and one malformed address
LoginInputs ==
    {[remoteAddr |-> Client.remoteAddr, headers |-> NoHeaders, xff |-> Client.xff, bodyOk |-> TRUE,
      email |-> e, password |-> p, mfaCode |-> m] :
        e \in Emails \ MalformedEmails, p \in Passwords, m \in MfaCodes}
    \cup {[remoteAddr |-> Client.remoteAddr, headers |-> NoHeaders, xff |-> Client.xff, bodyOk |-> TRUE,
           email |-> EmailPadded, password |-> PasswordOneSpace, mfaCode |-> m] :
             m \in {CodeBlank, CodePadded, CodeControl}}
    \cup {[remoteAddr |-> Client.remoteAddr, headers |-> NoHeaders, xff |-> Client.xff, bodyOk |-> TRUE,
           email |-> EmailUpper, password |-> PasswordTwoSpace, mfaCode |-> <<>>]}
    \cup {[remoteAddr |-> Client.remoteAddr, headers |-> NoHeaders, xff |-> Client.xff, bodyOk |-> TRUE,
           email |-> e, password |-> PasswordOne, mfaCode |-> <<>>] : e \in MalformedEmails}
    \cup {[remoteAddr |-> Client.remoteAddr, headers |-> NoHeaders, xff |-> Client.xff, bodyOk |-> FALSE,
           email |-> EmailOne, password |-> PasswordOne, mfaCode |-> <<>>]}

\* one request at a time, each audit write finished before the next request
Quiet == (\A s \in Slots : Free(s)) /\ auditPending = EmptyBag

(* Spec: AuthHandler.Login and the UserHandler methods EnableMFA,          *)
(* DisableMFA and UpdateProfile, called one after the other.  The          *)
(* UserHandler methods are called with a request context that holds the    *)
(* caller's id under the string key "userID", the key they read; behind    *)
(* AuthMiddleware.Authenticate, which stores the id under UserIDKey, they   *)
(* panic before any statement (SpecCtx).  The audit INSERT fails (the      *)
(* failure branch of logToDatabase), as it does against the audit_logs     *)
(* table of the repository's schema; the SELECT of Login may fail.         *)
Next ==
    \/ \E in \in LoginInputs : Quiet /\ LoginGate(1, in)
    \/ (\E queryOk \in BOOLEAN : LoginDetect(1, queryOk))
    \/ LoginLoad(1)
    \/ LoginLoadFails(1)
    \/ LoginStore(1)
    \/ \E e \in BagToSet(auditPending) : logToDatabase(e, FALSE)
    \/ \E id \in Principals, x \in Secrets : Quiet /\ EnableMFA(1, id, x)
    \/ \E id \in Principals, b \in BOOLEAN, p \in Passwords, m \in MfaCodes :
            Quiet /\ DisableMFALoad(1, id, b, p, m)
    \/ DisableMFAStore(1)
    \/ \E id \in Principals, in \in EmailChanges : Quiet /\ UpdateProfile(1, id, in)
    \/ \E d \in TickSteps : Quiet /\ Tick(d)

Spec == Init /\ [][Next]_vars

----------------------------------------------------------------------------
(* SpecRL: a RateLimiter of any small limit and window, called for two     *)
(* keys at arbitrary times.                                                *)

RLKeys == {<<"h1", "p1">>, <<"h2", "p2">>}

InitRL ==
    /\ now = 0
    /\ InitStore
    /\ rl \in {NewRateLimiter(n, w) : n \in 1..MaxLimit, w \in 1..MaxWindow}
    /\ InitOther

NextRL == \E key \in RLKeys, gap \in 0..(MaxWindow + 1) : AllowCall(key, gap)

SpecRL == InitRL /\ [][NextRL]_vars

----------------------------------------------------------------------------
(* SpecCSRF: the token table under any interleaving of its three critical  *)
(* sections and the clock.                                                 *)

FineSteps == {5}

NextCSRF ==
    \/ GenerateToken
    \/ \E token \in TokenNames : ValidateTokenCall(token)
    \/ cleanupExpiredTokens
    \/ \E d \in FineSteps : Tick(d)

SpecCSRF == Init /\ [][NextCSRF]_vars

----------------------------------------------------------------------------
(* SpecTok: token pairs minted at any time, presented in either cookie at  *)
(* any later time.                                                         *)

Subjects == Principals \cup {"u2"}

NextTok ==
    \/ \E id \in Subjects : MintPair(id)
    \/ \E p \in Presented : AuthenticateRequest(p)
    \/ \E p \in Presented : RefreshToken(p)
    \/ \E d \in FineSteps : Tick(d)

SpecTok == InitTok /\ [][NextTok]_vars

----------------------------------------------------------------------------
(* SpecConc: the handlers of Spec called concurrently for one principal    *)
(* within one minute, each advancing by one store access at a time.  A     *)
(* request arrives while fewer than MaxPending audit writes are under way, *)
(* and no step of a handler waits for an audit write.                      *)

ConcInputs ==
    {[remoteAddr |-> Client.remoteAddr, headers |-> NoHeaders, xff |-> Client.xff, bodyOk |-> TRUE,
      email |-> EmailOne, password |-> p, mfaCode |-> m] :
        p \in Passwords, m \in {<<>>, TotpCode("s1")}}
    \cup {[remoteAddr |-> Client.remoteAddr, headers |-> NoHeaders, xff |-> Client.xff, bodyOk |-> TRUE,
           email |-> EmailPadded, password |-> PasswordOneSpace, mfaCode |-> CodeBlank]}

\* the store after n wrong-password Logins in a row, served one by one
AfterMismatches(n) ==
    /\ users = [id \in Principals |->
                   [Registered(id) EXCEPT !.failedAttempts = n, !.lockedUntil = NewLockedUntil(n)]]
    /\ streak = [id \in Principals |-> n]
    /\ auditDB = EmptyBag
    /\ auditPending = EmptyBag
    /\ reqs = [s \in Slots |-> Idle]

InitConc ==
    /\ now = 0
    /\ \E n \in {0, LockThreshold - 1} : AfterMismatches(n)
    /\ rl = WarmLimiter(Client.remoteAddr, AuthRateLimit - MaxConcLogins)
    /\ InitOther

\* the audit goroutines not yet run are at most MaxPending when a request
\* arrives; no handler step waits for them
MaxPending == 2
Backlog == BagCardinality(auditPending) < MaxPending

\* the goroutine a new request is served in: goroutines are interchangeable
NextMwSlot == {s \in Slots : MwFree(s) /\ \A r \in Slots : MwFree(r) => s <= r}

\* the slot a new request is served in: slots are interchangeable
NextSlot == {s \in Slots : Free(s) /\ \A r \in Slots : Free(r) => s <= r}

NextConc ==
    \/ \E s \in NextSlot, in \in ConcInputs : Backlog /\ LoginGate(s, in)
    \/ \E s \in Slots, queryOk \in BOOLEAN : LoginDetect(s, queryOk)
    \/ \E s \in Slots : LoginLoad(s)
    \/ \E s \in Slots : LoginLoadFails(s)
    \/ \E s \in Slots : LoginStore(s)
    \/ \E e \in BagToSet(auditPending) : logToDatabase(e, FALSE)
    \/ \E s \in NextSlot, id \in Principals : Backlog /\ EnableMFA(s, id, "s1")
    \/ \E s \in NextSlot, id \in Principals, in \in EmailChanges : Backlog /\ UpdateProfile(s, id, in)
    \/ \E s \in NextSlot, id \in Principals :
            Backlog /\ DisableMFALoad(s, id, TRUE, PasswordOne, TotpCode("s1"))
    \/ \E s \in Slots : DisableMFAStore(s)

SpecConc == InitConc /\ [][NextConc]_vars

----------------------------------------------------------------------------
(* SpecRace: MaxRaceLogins Logins for one principal without MFA, with the  *)
(* right or a wrong password, served concurrently within one minute.       *)

MaxRaceLogins == 3

RaceInputs ==
    {[remoteAddr |-> Client.remoteAddr, headers |-> NoHeaders, xff |-> Client.xff, bodyOk |-> TRUE,
      email |-> EmailOne, password |-> p, mfaCode |-> <<>>] : p \in Passwords}

InitRace ==
    /\ now = 0
    /\ AfterMismatches(0)
    /\ rl = WarmLimiter(Client.remoteAddr, AuthRateLimit - MaxRaceLogins)
    /\ InitOther

NextRace ==
    \/ \E s \in NextSlot, in \in RaceInputs : Backlog /\ LoginGate(s, in)
    \/ \E s \in Slots, queryOk \in BOOLEAN : LoginDetect(s, queryOk)
    \/ \E s \in Slots : LoginLoad(s)
    \/ \E s \in Slots : LoginStore(s)
    \/ \E e \in BagToSet(auditPending) : logToDatabase(e, FALSE)

SpecRace == InitRace /\ [][NextRace]_vars

----------------------------------------------------------------------------
(* SpecRefresh: refresh tokens presented at any time of their seven days,  *)
(* and after.  The principal u1 may be locked at first (its fifth wrong    *)
(* password came in the minute after a Login gave it a token pair); the    *)
(* row of u2 was deleted after u2 logged in.                               *)

LongSteps == {RefreshTTL}

\* the clock moves on by the life of a refresh token
Later(d) ==
    /\ now <= MaxTime
    /\ now' = now + d
    /\ UNCHANGED <<authVars, hist, csrfVars, tokVars, edgeVars>>

\* the requests of the client the limiter has counted in its window
Served == IF Client.remoteAddr \in DOMAIN rl.requests
          THEN rl.requests[Client.remoteAddr].count ELSE 0

\* the client keeps the two cookies Login set in the response to request s
KeepCookies(s) ==
    /\ reqs[s].op = "login" /\ reqs[s].pc = "done" /\ reqs[s].resp.cookies # {}
    /\ LET cookie(name) == (CHOOSE c \in reqs[s].resp.cookies : c.name = name).value
       IN jar' = [id |-> reqs[s].uid, access |-> cookie("access_token"),
                  refresh |-> cookie("refresh_token")]
    /\ jar' # jar
    /\ UNCHANGED <<now, authVars, hist, csrfVars, verdict, spent, edgeVars>>

\* the Login of a client that knows the password of u1
SessionLogin ==
    [remoteAddr |-> Client.remoteAddr, headers |-> NoHeaders, xff |-> Client.xff, bodyOk |-> TRUE,
     email |-> EmailOne, password |-> PasswordOne, mfaCode |-> <<>>]

MaxSessions == 2

\* the client can log in MaxSessions times before the limiter turns it down
InitSessions ==
    /\ now = 0
    /\ InitStoreAnyId
    /\ rl = WarmLimiter(Client.remoteAddr, AuthRateLimit - MaxSessions)
    /\ InitOther

InitRefresh ==
    /\ now = 0
    /\ \E n \in {0, LockThreshold}, uuid \in IdValues :
            /\ users = [id \in Principals |->
                           [Registered(id) EXCEPT !.id = uuid, !.failedAttempts = n,
                                                  !.lockedUntil = NewLockedUntil(n)]]
            /\ streak = [id \in Principals |-> n]
    /\ auditDB = EmptyBag
    /\ auditPending = EmptyBag
    /\ reqs = [s \in Slots |-> Idle]
    /\ rl = WarmLimiter(Client.remoteAddr, AuthRateLimit - MaxSessions)
    /\ InitFresh
    /\ jar \in {NoPair} \cup {[id |-> id, access |-> generateAccessToken(IdOf(id)),
                                 refresh |-> generateRefreshToken(IdOf(id))] : id \in Subjects}
    /\ WarmMiddleware(0)

NextRefresh ==
    \/ Quiet /\ now < AuthRateWindow /\ Served < AuthRateLimit /\ LoginGate(1, SessionLogin)
    \/ (\E queryOk \in BOOLEAN : LoginDetect(1, queryOk))
    \/ LoginLoad(1)
    \/ LoginStore(1)
    \/ \E e \in BagToSet(auditPending) : logToDatabase(e, FALSE)
    \/ KeepCookies(1)
    \/ \E p \in Presented : Quiet /\ RefreshToken(p)
    \/ \E d \in TickSteps : Quiet /\ Tick(d)
    \/ \E d \in LongSteps : Quiet /\ Later(d)

SpecRefresh == InitRefresh /\ [][NextRefresh]_vars

----------------------------------------------------------------------------
(* SpecPorts: one client sends Logins over two connections, that is from   *)
(* one IP address and two ports, having used up all but MaxLogins of the   *)
(* limit on the first.  The bodies do not parse, so each request ends      *)
(* after the limiter and the audit query.                                  *)

OtherPort == <<"h1", "p2">>

PortInputs ==
    {[remoteAddr |-> a, headers |-> NoHeaders, xff |-> <<>>, bodyOk |-> FALSE,
      email |-> EmailOne, password |-> PasswordOne, mfaCode |-> <<>>] :
        a \in {Client.remoteAddr, OtherPort}}

\* the count the limiter holds for key
Counted(key) == IF key \in DOMAIN rl.requests THEN rl.requests[key].count ELSE 0

NextPorts ==
    \/ \E in \in PortInputs :
            /\ Quiet
            /\ in.remoteAddr = OtherPort => Counted(OtherPort) < MaxLogins
            /\ LoginGate(1, in)
    \/ (\E queryOk \in BOOLEAN : LoginDetect(1, queryOk))
    \/ \E e \in BagToSet(auditPending) : logToDatabase(e, FALSE)

SpecPorts == Init /\ [][NextPorts]_vars

----------------------------------------------------------------------------
(* SpecCsrfMw: requests through CSRFProtection.CSRFMiddleware, with any    *)
(* method for an ordinary path and with POST for the refresh endpoint, a   *)
(* path that merely begins like it and an ordinary path; tokens are drawn  *)
(* and time passes in between.                                             *)

\* a client sends no token, the first drawn, or the latest drawn
CsrfRequests ==
    LET Sendable == {EmptyToken, 1, csrfIssued}
        Paths == {RefreshPrefix, <<"/api/auth/refresh", "-all">>, <<"/api/donations">>}
    IN {[method |-> m, path |-> <<"/api/donations">>, header |-> h, form |-> EmptyToken,
         cookie |-> <<>>] : m \in Methods, h \in Sendable}
       \cup {[method |-> "POST", path |-> p, header |-> h, form |-> f, cookie |-> <<>>] :
                p \in Paths, h \in Sendable, f \in Sendable}

NextCsrfMw ==
    \/ GenerateToken
    \/ \E r \in CsrfRequests : CSRFMiddleware(r)
    \/ \E d \in TickSteps : Tick(d)

SpecCsrfMw == Init /\ [][NextCsrfMw]_vars

----------------------------------------------------------------------------
(* SpecDouble: requests through the two double-submit middlewares, with    *)
(* any method and any combination of cookie and header.                    *)

DoubleRequests ==
    {[method |-> m, path |-> <<"/api/donations">>, header |-> h, form |-> EmptyToken, cookie |-> c] :
        m \in Methods, h \in TokenNames, c \in {<<>>} \cup {<<v>> : v \in TokenNames}}

NextDouble ==
    \/ \E r \in DoubleRequests : DoubleSubmitCookie(r)
    \/ \E r \in DoubleRequests : ValidateCSRF(r)

SpecDouble == Init /\ [][NextDouble]_vars

----------------------------------------------------------------------------
(* SpecSeverity: LogEvent called with an event of any type, one the lookup *)
(* does not know included, and with any severity or none.                  *)

\* the event types of audit.go and one that is none of them
EventTypes == HighTypes \cup MediumTypes \cup LowTypes \cup {"PROFILE_VIEWED"}

\* the severity field as a caller fills it: left empty, or any string
Severities == {"", "LOW", "MEDIUM", "HIGH", "CRITICAL"}

AuditEvent(eventType, severity) ==
    [eventType |-> eventType, userID |-> IdOf("u1"), email |-> EmailOne,
     ip |-> extractIPAddress(Client), reason |-> "", severity |-> severity, ts |-> now]

NextSeverity ==
    \/ \E t \in EventTypes, sev \in Severities : LogEventCall(AuditEvent(t, sev))
    \/ \E e \in BagToSet(auditPending) : logToDatabase(e, FALSE)

SpecSeverity == Init /\ [][NextSeverity]_vars

----------------------------------------------------------------------------
(* SpecValidator: ValidatePassword and SanitizeInput applied to a string   *)
(* drawn at the start.                                                     *)

MaxTail == 4
MaxInputLen == 3

SeqsUpTo(S, n) == UNION {[1..k -> S] : k \in 0..n}

\* NUL ! 1 A a and the two-byte letters A-grave and e-acute, after nothing
\* or after "Aa1!", which has a character of each class
PasswordInputs ==
    {h \o t : h \in {<<>>, <<65, 97, 49, 33>>}, t \in SeqsUpTo({0, 33, 49, 65, 97, 192, 233}, MaxTail)}

\* NUL, a control character, tab, newline, carriage return, space, a
SanitizeInputs == SeqsUpTo({0, 1, 9, 10, 13, 32, 97}, MaxInputLen)

InitValidator ==
    /\ now = 0
    /\ InitStore
    /\ rl = WarmLimiter(Client.remoteAddr, AuthRateLimit - MaxLogins)
    /\ InitTables
    /\ jar = NoPair
    /\ WarmMiddleware(0)
    /\ call \in {[NoCall EXCEPT !.arg = a] : a \in PasswordInputs \cup SanitizeInputs}

NextValidator == ValidatePasswordCall \/ SanitizeInputCall

SpecValidator == InitValidator /\ [][NextValidator]_vars

----------------------------------------------------------------------------
(* SpecAccount: principals from registration on.  The requests are served  *)
(* one at a time, but for UpdateProfile, which may come in between the     *)
(* steps of another request.                                               *)

\* "Aa1!Aa1?" followed by a space; "a"

AccountRequest == [remoteAddr |-> Client.remoteAddr, headers |-> NoHeaders, xff |-> Client.xff, bodyOk |-> TRUE]

AccountIn(fields) == [r \in DOMAIN AccountRequest \cup DOMAIN fields |->
                          IF r \in DOMAIN fields THEN fields[r] ELSE AccountRequest[r]]

\* the reserved name "root", and "BOB", which the collation holds equal to
\* "bob"
UsernameReserved == <<114, 111, 111, 116>>
UsernameUpper == <<66, 79, 66>>

RegisterInputs ==
    {AccountIn([username |-> UsernameOne, email |-> EmailOne, password |-> PasswordOne]),
     AccountIn([username |-> UsernameOne, email |-> EmailOne, password |-> PasswordWeak]),
     AccountIn([username |-> UsernameOne, email |-> EmailBad, password |-> PasswordOne]),
     AccountIn([username |-> UsernameReserved, email |-> EmailOne, password |-> PasswordOne]),
     AccountIn([username |-> UsernameUpper, email |-> EmailNobody, password |-> Password72]),
     AccountIn([username |-> UsernameTwo, email |-> EmailOne, password |-> PasswordLong]),
     AccountIn([username |-> UsernameOne, email |-> EmailOne, password |-> PasswordOne, bodyOk |-> FALSE])}


AccountLogins ==
    {AccountIn([email |-> EmailOne, password |-> PasswordOne, mfaCode |-> m]) : m \in MfaCodes}
    \cup {AccountIn([email |-> EmailOne, password |-> PasswordTwo, mfaCode |-> <<>>]),
          AccountIn([email |-> EmailOne, password |-> PasswordTwoSpace, mfaCode |-> <<>>]),
          AccountIn([email |-> EmailNobody, password |-> Password73, mfaCode |-> <<>>])}

DisableMFAInputs ==
    {[bodyOk |-> TRUE, password |-> PasswordOne, mfaCode |-> m] : m \in {TotpCode("s1"), TotpCode("s2")}}
    \cup {[bodyOk |-> b, password |-> PasswordTwo, mfaCode |-> TotpCode("s1")] : b \in BOOLEAN}
    \cup {[bodyOk |-> TRUE, password |-> Password73, mfaCode |-> TotpCode("s1")]}
    \cup {[bodyOk |-> TRUE, password |-> PasswordOne, mfaCode |-> CodePadded]}

ChangePasswordInputs ==
    {AccountIn([currentPassword |-> PasswordOne, newPassword |-> PasswordTwoSpace, mfaCode |-> m]) :
        m \in MfaCodes}
    \cup {AccountIn([currentPassword |-> c, newPassword |-> PasswordOne, mfaCode |-> <<>>]) :
             c \in {PasswordOne, PasswordTwoSpace}}
    \cup {AccountIn([currentPassword |-> PasswordOne, newPassword |-> PasswordWeak, mfaCode |-> <<>>,
                     bodyOk |-> b]) : b \in BOOLEAN}
    \cup {AccountIn([currentPassword |-> PasswordOne, newPassword |-> PasswordLong, mfaCode |-> <<>>]),
          AccountIn([currentPassword |-> Password72, newPassword |-> Password73, mfaCode |-> <<>>])}

\* the refresh_token cookie of a client that has just logged in as id
Session(id) == {[src |-> "refresh", id |-> id, tok |-> generateRefreshToken(IdOf(id))]}

MaxAccountCalls == 2

\* the store is empty; the client has used up all but MaxAccountCalls of
\* the limit
InitAccount ==
    /\ now = 0
    /\ users = <<>>
    /\ streak = [id \in Range(RowIds) |-> 0]
    /\ auditDB = EmptyBag
    /\ auditPending = EmptyBag
    /\ reqs = [s \in Slots |-> Idle]
    /\ rl = WarmLimiter(Client.remoteAddr, AuthRateLimit - MaxAccountCalls)
    /\ InitOther

NextAccount ==
    \/ \E in \in RegisterInputs : Quiet /\ Register(1, in)
    \/ \E queryOk \in BOOLEAN : RegisterSelectEmail(1, queryOk)
    \/ \E queryOk \in BOOLEAN : RegisterSelectUsername(1, queryOk)
    \/ \E insertOk \in BOOLEAN : RegisterInsert(1, "s1", insertOk)
    \/ \E id \in Principals, in \in ProfileInputs : UpdateProfile(2, id, in)
    \/ \E in \in AccountLogins : Quiet /\ LoginGate(1, in)
    \/ (\E queryOk \in BOOLEAN : LoginDetect(1, queryOk))
    \/ LoginLoad(1)
    \/ LoginStore(1)
    \/ \E id \in DOMAIN users : Quiet /\ EnableMFA(1, id, "s1")
    \/ \E id \in Principals, in \in DisableMFAInputs : 
            Quiet /\ DisableMFALoad(1, id, in.bodyOk, in.password, in.mfaCode)
    \/ DisableMFAStore(1)
    \/ \E id \in Principals, in \in ChangePasswordInputs : Quiet /\ ChangePasswordLoad(1, id, in)
    \/ \E updateOk \in BOOLEAN : ChangePasswordStore(1, updateOk)
    \/ \E e \in BagToSet(auditPending) : logToDatabase(e, FALSE)
    \/ \E d \in TickSteps : Quiet /\ Tick(d)

SpecAccount == InitAccount /\ [][NextAccount]_vars

----------------------------------------------------------------------------
(* SpecSession: every operation that reads the principal's row, on a       *)
(* principal one mismatch away from the lock, one request at a time.  The  *)
(* store may fail at each credential lookup and at each UPDATE of Login,   *)
(* EnableMFA, DisableMFA and ChangePassword.  The client refreshes its     *)
(* session once.                                                           *)

SessionLogins ==
    {AccountIn([email |-> EmailOne, password |-> p, mfaCode |-> <<>>]) : p \in {PasswordOne, PasswordTwo}}

SessionChanges ==
    {AccountIn([currentPassword |-> c, newPassword |-> PasswordTwoSpace, mfaCode |-> <<>>]) :
        c \in {PasswordOne, PasswordTwo}}

\* the store holds the principal as Register and then LockThreshold - 1
\* wrong-password Logins have left it, on a server whose UUIDs are valid
\* UTF-8: the subject of the client's refresh token names the row
InitSession ==
    /\ now = 0
    /\ users = [id \in Principals |->
                   [Registered(id) EXCEPT !.id = IdText,
                                          !.passwordHash = Hash(PasswordOne),
                                          !.failedAttempts = LockThreshold - 1]]
    /\ streak = [id \in Principals |-> LockThreshold - 1]
    /\ auditDB = EmptyBag
    /\ auditPending = EmptyBag
    /\ reqs = [s \in Slots |-> Idle]
    /\ rl = WarmLimiter(Client.remoteAddr, AuthRateLimit - MaxAccountCalls)
    /\ InitOther

NextSession ==
    \/ \E in \in SessionLogins : Quiet /\ LoginGate(1, in)
    \/ (\E queryOk \in BOOLEAN : LoginDetect(1, queryOk))
    \/ LoginLoad(1)
    \/ LoginLoadFails(1)
    \/ LoginStore(1)
    \/ LoginStoreFails(1)
    \/ \E id \in Principals : Quiet /\ EnableMFA(1, id, "s1")
    \/ \E id \in Principals : Quiet /\ EnableMFAFails(1, id)
    \/ DisableMFAStoreFails(1)
    \/ \E id \in Principals, m \in {TotpCode("s1"), TotpCode("s2")} :
            Quiet /\ DisableMFALoad(1, id, TRUE, PasswordOne, m)
    \/ \E id \in Principals : Quiet /\ DisableMFAFails(1, id, PasswordOne, TotpCode("s1"))
    \/ \E id \in Principals, in \in EmailChanges : Quiet /\ UpdateProfile(1, id, in)
    \/ DisableMFAStore(1)
    \/ \E id \in Principals, in \in SessionChanges : Quiet /\ ChangePasswordLoad(1, id, in)
    \/ \E id \in Principals, in \in SessionChanges : Quiet /\ ChangePasswordFails(1, id, in)
    \/ \E updateOk \in BOOLEAN : ChangePasswordStore(1, updateOk)
    \/ \E id \in Principals : \E p \in Session(id) : Quiet /\ spent = {} /\ RefreshToken(p)
    \/ \E id \in Principals : \E p \in Session(id) : Quiet /\ spent = {} /\ RefreshTokenFails(p)
    \/ \E tok \in {NoToken} \cup {generateAccessToken(IdOf(id)) : id \in Principals} :
            Quiet /\ Logout(1, AccountRequest, tok)
    \/ \E e \in BagToSet(auditPending) : logToDatabase(e, FALSE)
    \/ \E d \in TickSteps : Quiet /\ Tick(d)

SpecSession == InitSession /\ [][NextSession]_vars

----------------------------------------------------------------------------
(* SpecMw: requests of two clients reaching RateLimitMiddleware, served    *)
(* concurrently.  One client connects twice, from two ports, and may name  *)
(* the other client in a proxy header; it has sent nothing so far, or all  *)
(* but one of the requests the limit grants, in a window that is still     *)
(* open or has just ended.  A goroutine may be held up until the window    *)
(* that was open when it read the clock is over.                           *)

MwInputs ==
    {[remoteAddr |-> a, headers |-> NoHeaders, xff |-> <<>>] :
        a \in {<<"h1", "p1">>, <<"h1", "p2">>, <<"h2", "p2">>}}
    \cup {[remoteAddr |-> <<"h1", "p1">>, headers |-> Header("X-Real-IP", <<"h2">>), xff |-> <<>>],
          [remoteAddr |-> <<"h1", "p1">>, xff |-> <<>>,
           headers |-> [h \in {"Forwarded", "X-Client-IP"} |->
                           IF h = "Forwarded" THEN <<"h1">> ELSE <<"h2">>]]}

InitMw ==
    /\ now \in {0, MwWindow + 1}
    /\ InitStore
    /\ rl = NewRateLimiter(AuthRateLimit, AuthRateWindow)
    /\ InitFresh
    /\ jar = NoPair
    /\ \E n \in {0, MwMaxRequests - 1} : WarmMiddleware(n)

\* the clock passes the end of the window that began at 0; mwAdmitted
\* counts the requests handed on in the window that begins now
MwLater ==
    /\ now = 0
    /\ now' = MwWindow + 1
    /\ mwAdmitted' = [ip \in MwIps |-> 0]
    /\ UNCHANGED <<authVars, hist, csrfVars, tokVars, mw, mwReqs, mwServed, gate, procLog, call>>

NextMw ==
    \/ \E s \in NextMwSlot, r \in MwInputs : MwEnter(s, r)
    \/ \E s \in Slots : MwSweepNext(s)
    \/ \E s \in Slots : MwSweepTest(s)
    \/ \E s \in Slots : MwSweepDelete(s)
    \/ \E s \in Slots : MwSweepEnd(s)
    \/ \E s \in Slots : MwLookup(s)
    \/ \E s \in Slots : MwInsert(s)
    \/ \E s \in Slots : MwLoad(s)
    \/ \E s \in Slots : MwResetCount(s)
    \/ \E s \in Slots : MwResetTime(s)
    \/ \E s \in Slots : MwIncr(s)
    \/ \E s \in Slots : MwStore(s)
    \/ \E s \in Slots : MwCheck(s)
    \/ MwLater
    \/ MwFatal

SpecMw == InitMw /\ [][NextMw]_vars

----------------------------------------------------------------------------
(* SpecGate: Logins with an unknown email, served one after the other by a *)
(* deployment whose audit INSERT succeeds.  The client connects from       *)
(* "h1:p1"; it sends no proxy header, or an X-Forwarded-For or X-Real-IP   *)
(* header naming its own socket address.                                   *)

GateInputs ==
    {[remoteAddr |-> Client.remoteAddr, headers |-> h.headers, xff |-> h.xff, bodyOk |-> TRUE,
      email |-> EmailNobody, password |-> PasswordOne, mfaCode |-> <<>>] :
        h \in {[headers |-> NoHeaders, xff |-> <<>>],
               [headers |-> NoHeaders, xff |-> <<Client.remoteAddr>>],
               [headers |-> Header("X-Real-IP", Client.remoteAddr), xff |-> <<>>]}}

InitGate ==
    /\ now = 0
    /\ InitStore
    /\ rl = NewRateLimiter(AuthRateLimit, AuthRateWindow)
    /\ InitOther

NextGate ==
    \/ \E in \in GateInputs : Quiet /\ Served < MaxGateLogins /\ LoginGate(1, in)
    \/ (\E queryOk \in BOOLEAN : LoginDetect(1, queryOk))
    \/ LoginLoad(1)
    \/ \E e \in BagToSet(auditPending) : logToDatabase(e, TRUE)
    \/ \E d \in TickSteps : Quiet /\ Tick(d)

SpecGate == InitGate /\ [][NextGate]_vars

----------------------------------------------------------------------------
(* SpecOrder: Logins of every kind served one after the other by a         *)
(* deployment whose audit INSERT succeeds, for a client whose proxy header  *)
(* names its socket address.  The client has MaxOrderLogins requests left   *)
(* in its rate-limit window; it may have SuspiciousThreshold failures on    *)
(* record, and the principal may be one mismatch away from its lock.        *)

MaxOrderLogins == 3

OrderRequest == [remoteAddr |-> Client.remoteAddr, headers |-> NoHeaders, xff |-> <<Client.remoteAddr>>]

OrderIn(bodyOk, email, password, mfaCode) ==
    [remoteAddr |-> OrderRequest.remoteAddr, headers |-> NoHeaders, xff |-> OrderRequest.xff, bodyOk |-> bodyOk,
     email |-> email, password |-> password, mfaCode |-> mfaCode]

OrderInputs ==
    {OrderIn(FALSE, EmailOne, PasswordOne, <<>>), OrderIn(TRUE, EmailBad, PasswordOne, <<>>),
     OrderIn(TRUE, EmailNobody, PasswordOne, <<>>),
     OrderIn(TRUE, EmailPadded, PasswordOneSpace, CodeBlank)}
        \cup {OrderIn(TRUE, EmailOne, p, m) : p \in Passwords, m \in {<<>>, TotpCode("s1")}}

\* the audit row of a Login of the client with an unknown email, at time 0
UnknownEmailRow ==
    [eventType |-> "LOGIN_FAILED", userID |-> <<>>, email |-> EmailNobody, ip |-> OrderRequest.remoteAddr,
     reason |-> "User not found", severity |-> "MEDIUM", ts |-> 0]

InitOrder ==
    /\ now = 0
    /\ \E m \in {0, LockThreshold - 1} :
            /\ users = [id \in Principals |->
                           [Registered(id) EXCEPT !.failedAttempts = m, !.lockedUntil = NewLockedUntil(m)]]
            /\ streak = [id \in Principals |-> m]
    /\ \E n \in {0, SuspiciousThreshold} :
            auditDB = IF n = 0 THEN EmptyBag ELSE [e \in {UnknownEmailRow} |-> n]
    /\ auditPending = EmptyBag
    /\ reqs = [s \in Slots |-> Idle]
    /\ rl = WarmLimiter(Client.remoteAddr, AuthRateLimit - MaxOrderLogins)
    /\ InitOther

\* the limiter has denied a request of the client
Denied == \E e \in DOMAIN auditDB : e.eventType = "RATE_LIMIT_EXCEEDED"

NextOrder ==
    \/ \E in \in OrderInputs : Quiet /\ ~Denied /\ LoginGate(1, in)
    \/ (\E queryOk \in BOOLEAN : LoginDetect(1, queryOk))
    \/ LoginLoad(1)
    \/ LoginStore(1)
    \/ \E e \in BagToSet(auditPending) : logToDatabase(e, TRUE)
    \/ \E id \in Principals : Quiet /\ ~Denied /\ EnableMFA(1, id, "s1")
    \/ \E id \in Principals, in \in EmailChanges : Quiet /\ ~Denied /\ UpdateProfile(1, id, in)

SpecOrder == InitOrder /\ [][NextOrder]_vars

----------------------------------------------------------------------------
(* SpecLogout: a client that logs in at any time, logs out once and goes   *)
(* on presenting the cookies it was given, refreshing its session at most   *)
(* once.  The audit INSERT fails, as in Spec.                               *)

\* the cookies of the client: the pair it was given last and a refresh token
\* it was given earlier
Kept == {p \in Presented : p.src # "forged"}

\* Logout has answered (no other handler of SpecLogout uses a request slot)
LoggedOut == reqs[1].op = "logout"

NextLogout ==
    \/ Quiet /\ ~LoggedOut /\ LoginGate(1, SessionLogin)
    \/ (\E queryOk \in BOOLEAN : LoginDetect(1, queryOk))
    \/ LoginLoad(1)
    \/ LoginStore(1)
    \/ KeepCookies(1)
    \/ \E tok \in {NoToken, jar.access} : Quiet /\ ~LoggedOut /\ Logout(1, Client, tok)
    \/ \E p \in Kept : Quiet /\ AuthenticateRequest(p)
    \/ \E p \in Kept : Quiet /\ spent = {} /\ RefreshToken(p)
    \/ \E e \in BagToSet(auditPending) : logToDatabase(e, FALSE)
    \/ \E d \in FineSteps : Quiet /\ Tick(d)

SpecLogout == InitSessions /\ [][NextLogout]_vars

----------------------------------------------------------------------------
(* SpecBoth: requests of two clients at arbitrary times, served one at a   *)
(* time, each put before a RateLimiter and a RateLimitMiddleware of the     *)
(* same small limit and window.                                             *)

NextBoth == \E ip \in MwIps, gap \in 0..(MaxWindow + 1) : BothLimiters(ip, gap)

SpecBoth == InitRL /\ [][NextBoth]_vars

----------------------------------------------------------------------------
(* SpecCtx: a client that logs in at any time and sends requests for the   *)
(* protected routes, carrying the access token it was given, the refresh   *)
(* token in its place, or a token of its own making.                        *)

CtxInputs ==
    {AccountIn([currentPassword |-> PasswordOne, mfaCode |-> <<>>, username |-> UsernameOne,
                email |-> EmailNobody, dbOk |-> b]) : b \in BOOLEAN}

NextCtx ==
    \/ Quiet /\ LoginGate(1, SessionLogin)
    \/ (\E queryOk \in BOOLEAN : LoginDetect(1, queryOk))
    \/ LoginLoad(1)
    \/ LoginStore(1)
    \/ \E e \in BagToSet(auditPending) : logToDatabase(e, FALSE)
    \/ KeepCookies(1)
    \/ \E op \in ProtectedOps, p \in Presented, in \in CtxInputs : Protected(1, op, p.tok, in)
    \/ \E d \in FineSteps : Tick(d)

SpecCtx == InitSessions /\ [][NextCtx]_vars

----------------------------------------------------------------------------
(* SpecAudit: Logins that end with an audit event (an unknown email, or a  *)
(* body that does not parse), each audit INSERT succeeding or failing.     *)
(* A handler never waits for the goroutine it started; the Go scheduler    *)
(* runs every goroutine eventually.                                        *)

AuditInputs ==
    {[remoteAddr |-> Client.remoteAddr, headers |-> NoHeaders, xff |-> <<>>, bodyOk |-> b,
      email |-> EmailNobody, password |-> PasswordOne, mfaCode |-> <<>>] : b \in BOOLEAN}

NextAudit ==
    \/ \E in \in AuditInputs : Served < MaxLogins /\ LoginGate(1, in)
    \/ (\E queryOk \in BOOLEAN : LoginDetect(1, queryOk))
    \/ LoginLoad(1)
    \/ \E e \in BagToSet(auditPending), insertOk \in BOOLEAN : logToDatabase(e, insertOk)

SpecAudit ==
    /\ InitGate
    /\ [][NextAudit]_vars
    /\ WF_vars(\E e \in BagToSet(auditPending), insertOk \in BOOLEAN : logToDatabase(e, insertOk))

----------------------------------------------------------------------------
(* Properties of Login, checked under Spec *)

\* the credentials of Login request s: the fields of its body once
\* SanitizeInput has taken the NULs, the outer whitespace and the control
\* characters from them
SuppliedEmail(s) == SanitizeInput(reqs[s].in.email)
SuppliedPassword(s) == SanitizeInput(reqs[s].in.password)
SuppliedCode(s) == SanitizeInput(reqs[s].in.mfaCode)

LoginDone(s) == reqs[s].op = "login" /\ reqs[s].pc = "done"
LockedResponse == [status |-> 403, field |-> "error", text |-> "Account is temporarily locked", cookies |-> {}]
GenericResponse == [status |-> 401, field |-> "error", text |-> "Invalid credentials", cookies |-> {}]

\* the step of request s that evaluates its password, as SanitizeInput left
\* it, against the row it read and finds a mismatch
MismatchStep(s) ==
    /\ reqs[s].op = "login" /\ reqs[s].pc = "store" /\ reqs'[s].pc = "done"
    /\ ~CompareHashAndPassword(reqs[s].user.passwordHash, SuppliedPassword(s))

\* the step of request s that looks up a principal whose lock is still
\* running, the SELECT returning its row
LockedLookupStep(s) ==
    /\ reqs[s].op = "login" /\ reqs[s].pc = "load" /\ reqs'[s].pc # "load"
    /\ "found" \in reqs'[s].passed
    /\ SelectByEmail(SuppliedEmail(s)) # NoUser
    /\ users[SelectByEmail(SuppliedEmail(s))].lockedUntil # NoTime
    /\ now < users[SelectByEmail(SuppliedEmail(s))].lockedUntil

\* C1: the 5th consecutive wrong-password Login of a principal (no verified
\* match in between) stores lockedUntil = now + 15 min, and a Login that
\* looks the principal up before lockedUntil is answered 403 "Account is
\* temporarily locked" whatever password it carries, the row left as it was.
C1_Lockout ==
    [][\A s \in Slots :
        /\ (MismatchStep(s) /\ streak'[reqs[s].uid] = LockThreshold)
               => users'[reqs[s].uid].lockedUntil = now + LockMinutes
        /\ LockedLookupStep(s)
               => /\ reqs'[s].pc = "done"
                  /\ reqs'[s].resp = LockedResponse
                  /\ users' = users]_vars

\* a Login with the correct password was answered 403 because the 5th
\* mismatch in a row had locked the principal until now + 15
C1_Witness ==
    \E s \in Slots :
        /\ LoginDone(s) /\ reqs[s].resp = LockedResponse
        /\ CompareHashAndPassword(reqs[s].user.passwordHash, SuppliedPassword(s))
        /\ streak[reqs[s].uid] = LockThreshold
        /\ users[reqs[s].uid].failedAttempts = LockThreshold
        /\ users[reqs[s].uid].lockedUntil = LockMinutes

\* C2: once a Login has verified the password, the principal's failedAttempts
\* is 0 and lockedUntil is none when the request ends, whether it ends with
\* tokens, with "MFA required" or with "Invalid MFA code".
C2_ResetOnMatch ==
    \A s \in Slots :
        (LoginDone(s) /\ "password" \in reqs[s].passed)
            => /\ users[reqs[s].uid].failedAttempts = 0
               /\ users[reqs[s].uid].lockedUntil = NoTime

\* a request that read a row with failures on it, verified the password and
\* then failed the MFA step
C2_Witness ==
    \E s \in Slots :
        /\ LoginDone(s) /\ "password" \in reqs[s].passed
        /\ reqs[s].resp.status = 401
        /\ reqs[s].resp.text = "Invalid MFA code"
        /\ reqs[s].user.failedAttempts > 0
        /\ users[reqs[s].uid].failedAttempts = 0

\* C6: a Login whose email matches no principal and a Login with a known
\* email and a wrong password get the same response, 401 "Invalid
\* credentials" without cookies, also when the mismatch locks the account.
C6_NoEnumeration ==
    \A s \in Slots :
        (/\ LoginDone(s)
         /\ reqs[s].events # <<>>
         /\ reqs[s].events[1].reason \in {"User not found", "Invalid password"})
            => reqs[s].resp = GenericResponse

\* the mismatch that locked the account was answered like an unknown email
C6_Witness ==
    \E s \in Slots :
        /\ LoginDone(s)
        /\ reqs[s].events # <<>>
        /\ reqs[s].events[1].eventType = "ACCOUNT_LOCKED"
        /\ reqs[s].events[1].reason = "Invalid password"
        /\ reqs[s].resp = GenericResponse

\* C7: for a principal with MFA enabled, a Login with the correct password
\* and an empty mfaCode is answered 401 {"message": "MFA required"} and
\* sets no cookie.  The code is empty when SanitizeInput leaves nothing of
\* it, which is the test Login makes.
C7_MfaRequired ==
    \A s \in Slots :
        (/\ LoginDone(s)
         /\ "password" \in reqs[s].passed
         /\ users[reqs[s].uid].mfaEnabled
         /\ SuppliedCode(s) = <<>>)
            => reqs[s].resp = [status |-> 401, field |-> "message", text |-> "MFA required",
                               cookies |-> {}]

\* such a Login happened, after EnableMFA had stored a secret
C7_Witness ==
    \E s \in Slots :
        /\ LoginDone(s)
        /\ "password" \in reqs[s].passed
        /\ users[reqs[s].uid].mfaEnabled
        /\ users[reqs[s].uid].mfaSecret = "s2"
        /\ SuppliedCode(s) = <<>>
        /\ reqs[s].resp.text = "MFA required"

\* the step of request s that looks up a principal whose lock has run out,
\* the SELECT returning its row
ExpiredLookupStep(s) ==
    /\ reqs[s].op = "login" /\ reqs[s].pc = "load" /\ reqs'[s].pc # "load"
    /\ "found" \in reqs'[s].passed
    /\ SelectByEmail(SuppliedEmail(s)) # NoUser
    /\ users[SelectByEmail(SuppliedEmail(s))].lockedUntil # NoTime
    /\ now >= users[SelectByEmail(SuppliedEmail(s))].lockedUntil

\* the step of request s that follows such a lookup with the correct
\* password and the MFA step satisfied, both judged on the sanitized fields
UnlockingStep(s) ==
    /\ reqs[s].op = "login" /\ reqs[s].pc = "store" /\ reqs'[s].pc = "done"
    /\ reqs[s].user.lockedUntil # NoTime
    /\ CompareHashAndPassword(reqs[s].user.passwordHash, SuppliedPassword(s))
    /\ \/ ~reqs[s].user.mfaEnabled
       \/ TotpValidate(SuppliedCode(s), reqs[s].user.mfaSecret)

\* C8: a lockedUntil that is written lies strictly after the time of the
\* write; a Login that looks the principal up at now >= lockedUntil is not
\* rejected as locked, and with the correct password (MFA satisfied) it is
\* answered 200 and leaves failedAttempts = 0 and lockedUntil = none.
C8_LockEnds ==
    [][/\ \A id \in Principals :
            (users'[id].lockedUntil # users[id].lockedUntil /\ users'[id].lockedUntil # NoTime)
                => users'[id].lockedUntil > now'
       /\ \A s \in Slots :
            /\ ExpiredLookupStep(s) => reqs'[s].pc = "store"
            /\ UnlockingStep(s)
                   => /\ reqs'[s].resp.status = 200
                      /\ users'[reqs[s].uid].failedAttempts = 0
                      /\ users'[reqs[s].uid].lockedUntil = NoTime]_vars

\* a Login at the very minute the lock ran out was answered 200
C8_Witness ==
    \E s \in Slots :
        /\ LoginDone(s) /\ reqs[s].resp.status = 200
        /\ reqs[s].user.lockedUntil = now
        /\ reqs[s].user.failedAttempts >= LockThreshold
        /\ users[reqs[s].uid].failedAttempts = 0
        /\ users[reqs[s].uid].lockedUntil = NoTime

----------------------------------------------------------------------------
(* Properties of the CSRF token table, checked under SpecCSRF *)

\* C3: ValidateToken answers true at most once for a token, whatever
\* GenerateToken, ValidateToken and sweep steps come before, between or after.
C3_SingleUse == \A token \in TokenNames : csrfTrue[token] <= 1

\* token 1 was accepted once, swept away, and a later ValidateToken(1) was
\* answered false while younger tokens were in the table
C3_Witness ==
    /\ csrfTrue[1] = 1
    /\ csrfLast = [token |-> 1, ok |-> FALSE]
    /\ 1 \notin DOMAIN csrf.tokens
    /\ csrf.nextSweep > SweepInterval
    /\ csrfIssued >= 2

\* C18: ValidateToken(t) answers true iff t is in the table, the time is not
\* after its expiresAt and it is not used, and then marks it used; it
\* answers false to a missing or empty token and leaves the table alone; it
\* answers false to an expired token and evicts it; and GenerateToken stores
\* each token with expiresAt 15 minutes after the time it was drawn.
C18_ValidateOutcome ==
    [][/\ \A token \in TokenNames : ValidateTokenCall(token) =>
             LET present == token # EmptyToken /\ token \in DOMAIN csrf.tokens
                 live == present /\ ~(now > csrf.tokens[token].expiresAt)
             IN /\ csrfLast'.ok <=> (live /\ ~csrf.tokens[token].used)
                /\ csrfLast'.ok => csrf'.tokens = [csrf.tokens EXCEPT ![token].used = TRUE]
                /\ ~present => csrf' = csrf
                /\ (present /\ ~live) => csrf'.tokens = Without(csrf.tokens, {token})
                /\ (live /\ csrf.tokens[token].used) => csrf' = csrf
       /\ GenerateToken =>
             csrf'.tokens[csrfIssued'] = [expiresAt |-> now + CsrfTTL, used |-> FALSE]]_vars

\* a token that was drawn and never accepted was refused and is gone from
\* the table, although the clean-up loop has not run yet
C18_Witness ==
    /\ csrfLast.token \in 1..csrfIssued /\ ~csrfLast.ok
    /\ csrfTrue[csrfLast.token] = 0
    /\ csrfLast.token \notin DOMAIN csrf.tokens
    /\ csrf.nextSweep = SweepInterval

----------------------------------------------------------------------------
(* Properties of the CSRF middlewares, checked under SpecCsrfMw and        *)
(* SpecDouble                                                              *)

\* ValidateToken would accept token now
Acceptable(token) ==
    /\ token # EmptyToken /\ token \in DOMAIN csrf.tokens
    /\ ~(now > csrf.tokens[token].expiresAt)
    /\ ~csrf.tokens[token].used

\* C19: CSRFMiddleware hands a POST, PUT, PATCH or DELETE request to the
\* wrapped handler only if it carries a token ValidateToken accepts, which
\* is thereby used up, unless the request is for the token-refresh
\* endpoint; it hands on every GET, HEAD and OPTIONS request and uses up no
\* token for it; a request it does not hand on is answered 403.
C19_CsrfGate ==
    [][\A r \in CsrfRequests : CSRFMiddleware(r) =>
            /\ (r.method \notin SafeMethods /\ r.path # RefreshPrefix /\ gate'.passed)
                    => \E token \in {r.header, r.form} :
                          Acceptable(token) /\ csrf'.tokens[token].used
            /\ r.method \in SafeMethods => (gate'.passed /\ csrf' = csrf)
            /\ ~gate'.passed => gate'.status = 403]_vars

\* C20: a request with an unsafe method reaches the wrapped handler iff the
\* CSRF cookie is present, the X-CSRF-Token header is not empty and the two
\* values are equal; otherwise it is answered 403 and the handler is not
\* invoked.
C20_DoubleSubmit ==
    (gate.by \in {"DoubleSubmitCookie", "ValidateCSRF"} /\ gate.method \notin SafeMethods) =>
        /\ gate.passed <=> (gate.cookie # <<>> /\ gate.header # EmptyToken
                                /\ gate.cookie[1] = gate.header)
        /\ ~gate.passed => gate.status = 403

\* a DELETE whose cookie and header both carry a value, but not the same
\* one, was answered 403 by DoubleSubmitCookie
C20_Witness ==
    /\ gate.by = "DoubleSubmitCookie" /\ gate.method = "DELETE"
    /\ gate.cookie # <<>> /\ gate.header # EmptyToken
    /\ gate.cookie[1] # EmptyToken /\ gate.cookie[1] # gate.header
    /\ ~gate.passed /\ gate.status = 403

----------------------------------------------------------------------------
(* Properties of RateLimiter.Allow, checked under SpecRL *)

KeyCalls(key) == SelectSeq(hist, LAMBDA c : c.key = key)

\* the call that opened the window the j-th call of c falls in: the first
\* call, or the latest one made more than w after its window had opened
RECURSIVE WindowStart(_, _, _)
WindowStart(c, j, w) ==
    IF j = 1 THEN 1
    ELSE LET p == WindowStart(c, j - 1, w)
         IN IF c[j].t - c[p].t > w THEN j ELSE p

\* C4: for every key, starting from no entry, a call is answered true
\* exactly when it is among the first N of its window (so the first N calls
\* within W of the first are allowed and the N+1st is denied), and a call
\* made more than W after the window start is allowed and leaves the
\* counter {count: 1, windowStart: now}.
C4_FixedWindow ==
    \A key \in RLKeys :
        LET c == KeyCalls(key)
        IN \A j \in 1..Len(c) :
              LET ws == WindowStart(c, j, rl.window)
              IN /\ c[j].ok <=> (j - ws + 1 <= rl.limit)
                 /\ (j = Len(c) /\ ws = j)
                        => rl.requests[key] = [count |-> 1, startTime |-> c[j].t]

\* limit 2: two calls allowed, a third exactly W after the first denied, a
\* fourth after the window allowed with a fresh counter
C4_Witness ==
    \E key \in RLKeys :
        LET c == KeyCalls(key)
        IN /\ rl.limit = 2 /\ Len(c) = 4
           /\ c[1].ok /\ c[2].ok /\ ~c[3].ok /\ c[4].ok
           /\ c[3].t - c[1].t = rl.window
           /\ c[4].t - c[1].t > rl.window
           /\ rl.requests[key] = [count |-> 1, startTime |-> c[4].t]

\* the latest call made to Allow
LastCall == hist[Len(hist)]

\* C13: whatever the limit and the order in which callers get the lock, no
\* stored count exceeds the limit, and a call answered false leaves the
\* limiter as it found it.
C13_CountWithinLimit ==
    [][/\ \A k \in DOMAIN rl'.requests : rl'.requests[k].count <= rl'.limit
       /\ (Len(hist') > Len(hist) /\ ~hist'[Len(hist')].ok) => rl' = rl]_vars

\* a call was denied with the count of its key standing at the limit, while
\* the other key has an entry of its own
C13_Witness ==
    /\ Len(hist) > 0 /\ ~LastCall.ok
    /\ rl.requests[LastCall.key].count = rl.limit
    /\ DOMAIN rl.requests = RLKeys

\* C16: after any call of Allow, made at time now for whatever key, the
\* limiter holds no entry, of any key, whose window started more than window
\* ago.
C16_AllKeysSwept ==
    Len(hist) > 0 =>
        \A k \in DOMAIN rl.requests : now - rl.requests[k].startTime <= rl.window

\* the calls for key answered true among the i-th to j-th call made
Admitted(key, i, j) == Cardinality({n \in i..j : hist[n].key = key /\ hist[n].ok})

\* C17: for any key, the calls answered true within any span of time no
\* longer than the window number at most twice the limit.
C17_BoundaryBurst ==
    \A key \in RLKeys : \A i \in 1..Len(hist) : \A j \in i..Len(hist) :
        hist[j].t - hist[i].t <= rl.window => Admitted(key, i, j) <= 2 * rl.limit

\* a burst across a window boundary: within a span shorter than the window
\* more calls of one key were answered true than the limit, the first of
\* them in the old window, the last in a new one
C17_Witness ==
    \E key \in RLKeys : \E i \in 1..Len(hist) : \E j \in i..Len(hist) :
        /\ hist[i].key = key /\ hist[j].key = key /\ hist[i].ok /\ hist[j].ok
        /\ hist[j].t - hist[i].t < rl.window
        /\ Admitted(key, i, j) > rl.limit
        /\ rl.requests[key].startTime > hist[i].t

----------------------------------------------------------------------------
(* Properties of the limiter key of Login, checked under SpecPorts *)

\* C15: the requests of one client IP address are counted against one
\* counter: the limiter never holds two counters for keys of the same IP
\* address, so a client gets no fresh counter while its address stays.
C15_OneCounterPerIP ==
    \A k1 \in DOMAIN rl.requests : \A k2 \in DOMAIN rl.requests :
        StripPort(k1) = StripPort(k2) => k1 = k2

----------------------------------------------------------------------------
(* Properties of the audit log, checked under SpecSeverity and SpecAudit *)

\* C23: an event handed to LogEvent without a severity is recorded with the
\* severity of its type (HIGH, MEDIUM or LOW by the three lists, MEDIUM for
\* a type on none of them); an event handed over with a severity keeps it.
C23_Severity ==
    [][\A t \in EventTypes, sev \in Severities :
            LogEventCall(AuditEvent(t, sev)) =>
                \A e \in BagToSet(auditPending') :
                    e = [AuditEvent(t, sev) EXCEPT !.severity =
                            IF sev # "" THEN sev
                            ELSE IF t \in HighTypes THEN "HIGH"
                            ELSE IF t \in LowTypes THEN "LOW"
                            ELSE "MEDIUM"]]_vars

\* events of a type the lookup does not know, handed over without a severity
\* and with one the lookup never gives, wait to be written as MEDIUM and as
\* handed over
C23_Witness ==
    \E e \in BagToSet(auditPending) :
        /\ e.eventType \notin HighTypes \cup MediumTypes \cup LowTypes
        /\ e.severity \in {"MEDIUM", "CRITICAL"}

\* C22: a handler step never writes audit_logs itself (it hands the event
\* over and returns); an event leaves the hand-over only by becoming a row
\* or by a failure line in the process log, and that step changes neither a
\* response nor the users table; and the hand-over is emptied again and
\* again, so every event handed over meets one of the two ends.
C22_FireAndForget ==
    /\ [][/\ reqs' # reqs => auditDB' = auditDB
          /\ \A e \in BagToSet(auditPending) :
                CopiesIn(e, auditPending') < CopiesIn(e, auditPending) =>
                    /\ \/ CopiesIn(e, auditDB') = CopiesIn(e, auditDB) + 1
                       \/ InsertFailedLine \in procLog' /\ auditDB' = auditDB
                    /\ reqs' = reqs /\ users' = users]_vars
    /\ []<>(auditPending = EmptyBag)

\* a Login has been answered while its event was still waiting to be
\* written; an earlier event became a row and another one a failure line
C22_Witness ==
    /\ reqs[1].pc = "done" /\ reqs[1].resp.status = 401
    /\ BagIn(reqs[1].events[1], auditPending)
    /\ auditDB # EmptyBag
    /\ InsertFailedLine \in procLog

----------------------------------------------------------------------------
(* Properties of RateLimitMiddleware, checked under SpecMw *)

\* C14: in every interleaving of concurrent requests of one client IP, at
\* most maxRequests of them are handed to the next handler within one
\* window.
C14_AtMostMaxAdmitted ==
    \A ip \in MwIps : mwAdmitted[ip] <= MwMaxRequests

----------------------------------------------------------------------------
(* Properties of the tokens, checked under SpecTok *)

\* C5: Authenticate accepts the access token minted for the id of a
\* principal before its expiry and the subject it puts in the context is
\* that id; it rejects the refresh token of the pair; and RefreshToken
\* rejects the access token presented as refresh_token.
C5_RoundTrip ==
    /\ (verdict.by = "Authenticate" /\ verdict.src = "access" /\ verdict.id # ""
            /\ verdict.at < verdict.tok.exp)
           => (verdict.ok /\ Utf8(verdict.sub) = IdOf(verdict.id))
    /\ (verdict.by = "Authenticate" /\ verdict.src = "refresh") => ~verdict.ok
    /\ (verdict.by = "RefreshToken" /\ verdict.src = "access") => ~verdict.ok

----------------------------------------------------------------------------
(* Properties of RefreshToken, checked under SpecRefresh *)

\* the refresh_token cookie carries a token RefreshToken has to turn down:
\* p.id is the principal the token was issued for
Refused(p) ==
    \/ p.tok = NoToken
    \/ p.tok.alg \notin HMACAlgs \/ p.tok.key # RefreshSecret
    \/ now >= p.tok.exp
    \/ p.id \notin DOMAIN users
    \/ IsLocked(users[p.id])

\* C11: RefreshToken answers 401 and sets no cookie when the refresh token
\* is missing, invalid or expired, when its principal has no row any more,
\* or when the principal is locked at the time of the call; otherwise it
\* answers with a new access token for the same principal and overwrites
\* the refresh_token cookie with a new refresh token for that principal.
C11_RefreshOutcome ==
    [][\A p \in Presented : RefreshToken(p) =>
            IF Refused(p)
            THEN verdict'.status = 401 /\ ~verdict'.ok /\ jar' = jar
            ELSE /\ verdict'.status = 200 /\ verdict'.ok /\ verdict'.sub = p.tok.sub
                 /\ jar'.id = p.id
                 /\ jar'.access.sub = p.tok.sub /\ Authenticate(jar'.access).ok
                 /\ jar'.refresh.sub = p.tok.sub
                 /\ jar'.refresh.key = RefreshSecret
                 /\ jar'.refresh.exp = now + RefreshTTL]_vars

\* C12: a refresh token that RefreshToken has already replaced is accepted
\* again by every later call made before the token's expiry, as long as the
\* principal has a row and is not locked, and is turned down by every call
\* made at or after its expiry.
C12_NoRevocation ==
    [][\A p \in Presented : (p.tok \in spent /\ RefreshToken(p)) =>
            /\ (now < p.tok.exp /\ SelectById(p.tok.sub) # NoUser
                    /\ ~IsLocked(users[SelectById(p.tok.sub)]))
                    => (verdict'.ok /\ verdict'.status = 200)
            /\ now >= p.tok.exp => (~verdict'.ok /\ verdict'.status = 401)]_vars

\* a replaced refresh token, no longer the one in the cookie, was accepted
C12_Witness ==
    /\ verdict.by = "RefreshToken" /\ verdict.src = "spent" /\ verdict.ok
    /\ verdict.tok \in spent
    /\ verdict.tok # jar.refresh

\* C21: Authenticate and RefreshToken turn down every token whose header
\* names an algorithm that is not HMAC, whatever key its signature verifies
\* under and whatever its claims.
C21_AlgorithmPinned ==
    (verdict.by \in {"Authenticate", "RefreshToken"} /\ verdict.tok # NoToken
        /\ verdict.tok.alg \notin HMACAlgs)
            => (~verdict.ok /\ verdict.status = 401)

\* Authenticate answered 401 to an unexpired RS256 token for u1 whose
\* signature the access secret verifies
C21_Witness ==
    /\ verdict.by = "Authenticate" /\ verdict.status = 401
    /\ verdict.tok.alg = "RS256" /\ verdict.tok.key = JwtSecret
    /\ verdict.tok.sub = JsonString(IdOf("u1")) /\ verdict.at < verdict.tok.exp

----------------------------------------------------------------------------
(* Properties of Login under concurrency, checked under SpecConc *)

\* the step in which request s sets the two cookies and answers 200
IssueStep(s) ==
    /\ reqs[s].op = "login" /\ reqs[s].pc = "store" /\ reqs'[s].pc = "done"
    /\ reqs'[s].resp.status = 200
    /\ {c.name : c \in reqs'[s].resp.cookies} = {"access_token", "refresh_token"}

\* C9: when tokens are issued the principal exists, is not locked, has the
\* hash the password verifies against and, if it has mfaEnabled, a non-empty
\* code validated against its stored secret, the limiter and the
\* suspicious-activity gate having let the request in; in every interleaving
\* with EnableMFA, DisableMFA and other Logins.
C9_IssueOnStoredState ==
    [][\A s \in Slots :
        IssueStep(s)
            => /\ {"rate", "gate"} \subseteq reqs[s].passed
               /\ reqs[s].uid \in DOMAIN users
               /\ ~IsLocked(users[reqs[s].uid])
               /\ CompareHashAndPassword(users[reqs[s].uid].passwordHash, SuppliedPassword(s))
               /\ users[reqs[s].uid].mfaEnabled
                      => /\ SuppliedCode(s) # <<>>
                         /\ TotpValidate(SuppliedCode(s), users[reqs[s].uid].mfaSecret)]_vars

----------------------------------------------------------------------------
(* Properties of the suspicious-activity gate, checked under SpecGate *)

\* the step of a Login of request s, let in by the rate limiter, that asks
\* the audit log
GateStep(s) ==
    /\ reqs[s].op = "login" /\ reqs[s].pc = "gate"
    /\ reqs'[s].pc # "gate"

\* C10: when more than 10 LOGIN_FAILED, VALIDATION_FAILED or
\* RATE_LIMIT_EXCEEDED rows of the last 30 minutes carry the client's IP, its
\* next Login ends at the gate with 403 and a SUSPICIOUS_ACTIVITY event of
\* severity HIGH.
C10_SuspiciousGate ==
    [][\A s \in Slots :
        (/\ GateStep(s)
         /\ failedAttemptsCount(extractIPAddress(reqs'[s].in), SuspiciousWindow)
                > SuspiciousThreshold)
            => /\ reqs'[s].pc = "done"
               /\ reqs'[s].resp.status = 403
               /\ reqs'[s].events[1].eventType = "SUSPICIOUS_ACTIVITY"
               /\ reqs'[s].events[1].severity = "HIGH"]_vars

----------------------------------------------------------------------------
(* Properties of the Validator, checked under SpecValidator *)

\* the length of the longest run of identical consecutive characters
LongestRun(str) ==
    LET IsRun(i, j) == i <= j /\ \A k \in i..j : str[k] = str[i]
        lens == {0} \cup {p[2] - p[1] + 1 :
                            p \in {q \in (DOMAIN str) \X (DOMAIN str) : IsRun(q[1], q[2])}}
    IN  CHOOSE n \in lens : \A m \in lens : m <= n

\* C24 (as stated): ValidatePassword returns an error for a password with a
\* run of 3 or more identical consecutive characters, and no
\* repeated-character error when the longest run is shorter than 3.
C24_RunOfThree ==
    call.fn = "ValidatePassword" =>
        /\ LongestRun(call.arg) >= 3 => call.result # <<>>
        /\ LongestRun(call.arg) < 3 => RepeatedMessage \notin Range(call.result)

\* C24 (amended): ValidatePassword returns the repeated-character error
\* exactly when the password has a run of 4 or more identical consecutive
\* characters or begins with 3 NUL characters.
C24_RunOfFour ==
    call.fn = "ValidatePassword" =>
        (RepeatedMessage \in Range(call.result)
            <=> \/ LongestRun(call.arg) >= 4
                \/ Len(call.arg) >= 3 /\ SubSeq(call.arg, 1, 3) = <<0, 0, 0>>)

\* a password of every character class has been refused for nothing but its
\* run of 4
C24_Witness ==
    /\ call.fn = "ValidatePassword"
    /\ LongestRun(call.arg) = 4
    /\ call.result = <<RepeatedMessage>>

\* C25: the result of SanitizeInput has no NUL, no control character other
\* than newline and tab, no leading or trailing whitespace, and sanitizing
\* it again changes nothing.
C25_Sanitized ==
    call.fn = "SanitizeInput" =>
        /\ \A i \in DOMAIN call.result :
                call.result[i] >= 32 \/ call.result[i] \in {9, 10}
        /\ call.result # <<>> =>
                ~IsSpace(Head(call.result)) /\ ~IsSpace(call.result[Len(call.result)])
        /\ SanitizeInput(call.result) = call.result

----------------------------------------------------------------------------
(* Properties of the principal store, checked under SpecAccount *)

\* C26: after any sequence of Register, EnableMFA, DisableMFA and Login a
\* principal holds an MFA secret only if its mfaEnabled flag is true.
C26_SecretOnlyIfEnabled ==
    \A id \in DOMAIN users : users[id].mfaSecret # "" => users[id].mfaEnabled

\* request s is a DisableMFA for id answered in this step
DisableAnswered(s, id) ==
    /\ reqs'[s].op = "disableMFA" /\ reqs'[s].pc = "done" /\ reqs'[s].uid = id
    /\ reqs[s].pc # "done" \/ reqs[s] # reqs'[s]

\* C27: mfaEnabled goes from true to false, the secret being cleared, only
\* in a DisableMFA request whose password and MFA code both verify; a
\* DisableMFA request in which either does not verify is answered 401 and
\* leaves the store as it is.  The password and the code are those of a
\* body the handler could decode; a body it cannot decode holds neither, is
\* answered 400 and leaves the store as it is.
C27_DisableNeedsBoth ==
    [][\A id \in DOMAIN users :
            LET verifies(in) == /\ CompareHashAndPassword(users[id].passwordHash, in.password)
                                /\ TotpValidate(in.mfaCode, users[id].mfaSecret)
            IN /\ (users[id].mfaEnabled /\ ~users'[id].mfaEnabled) =>
                      /\ users'[id].mfaSecret = ""
                      /\ \E s \in Slots : DisableAnswered(s, id) /\ reqs'[s].resp.status = 200
                                              /\ reqs'[s].in.bodyOk /\ verifies(reqs'[s].in)
               /\ \A s \in Slots :
                      /\ (DisableAnswered(s, id) /\ reqs'[s].in.bodyOk /\ ~verifies(reqs'[s].in)) =>
                              reqs'[s].resp.status = 401 /\ users' = users
                      /\ (DisableAnswered(s, id) /\ ~reqs'[s].in.bodyOk) =>
                              reqs'[s].resp.status = 400 /\ users' = users]_vars

\* a DisableMFA with the right password and code has switched MFA off for a
\* principal that had it on
C27_Witness ==
    \E s \in Slots :
        /\ reqs[s].op = "disableMFA" /\ reqs[s].pc = "done" /\ reqs[s].resp.status = 200
        /\ reqs[s].user.mfaEnabled
        /\ ~users[reqs[s].uid].mfaEnabled /\ users[reqs[s].uid].mfaSecret = ""

\* request s is a ChangePassword of id answered in this step
ChangeAnswered(s, id) ==
    /\ reqs'[s].op = "changePassword" /\ reqs'[s].pc = "done" /\ reqs'[s].uid = id
    /\ reqs[s].pc # "done" \/ reqs[s] # reqs'[s]

\* C28: passwordHash is replaced only by a ChangePassword whose current
\* password verifies, whose new password passes validation and is not the
\* current one, and whose MFA code is valid when mfaEnabled; a new password
\* equal to the current one is rejected; a request that is rejected (400,
\* 401) or that fails at hashing or at the UPDATE (500) leaves passwordHash
\* as it is.  The passwords are the fields of the request as the handler
\* sanitizes them.
C28_ChangeNeedsChecks ==
    [][\A id \in DOMAIN users :
            LET current(in) == SanitizeInput(in.currentPassword)
                new(in) == SanitizeInput(in.newPassword)
                same(in) == CompareHashAndPassword(users[id].passwordHash, new(in))
                verified(in) ==
                    /\ in.bodyOk
                    /\ CompareHashAndPassword(users[id].passwordHash, current(in))
                    /\ ValidatePassword(new(in)) = <<>>
                    /\ ~same(in)
                    /\ users[id].mfaEnabled => TotpValidate(SanitizeInput(in.mfaCode), users[id].mfaSecret)
            IN /\ users'[id].passwordHash # users[id].passwordHash =>
                      \E s \in Slots : /\ ChangeAnswered(s, id) /\ reqs'[s].resp.status = 200
                                        /\ verified(reqs'[s].in)
                                        /\ users'[id].passwordHash = Hash(new(reqs'[s].in))
               /\ \A s \in Slots :
                      /\ (ChangeAnswered(s, id) /\ (same(reqs'[s].in) \/ ~verified(reqs'[s].in))) =>
                              reqs'[s].resp.status \in {400, 401}
                      /\ (ChangeAnswered(s, id) /\ reqs'[s].resp.status # 200) =>
                              /\ reqs'[s].resp.status \in {400, 401, 500}
                              /\ users'[id].passwordHash = users[id].passwordHash]_vars

\* a principal with MFA on has changed its password with the current
\* password and a valid code; the new password was sent with a trailing
\* space and is stored without it
C28_Witness ==
    \E s \in Slots :
        /\ reqs[s].op = "changePassword" /\ reqs[s].pc = "done" /\ reqs[s].resp.status = 200
        /\ reqs[s].user.mfaEnabled
        /\ reqs[s].in.newPassword = PasswordTwoSpace
        /\ users[reqs[s].uid].passwordHash = Hash(PasswordTwo)

----------------------------------------------------------------------------
(* Properties of the operations on a principal's row, checked under        *)
(* SpecSession                                                             *)

\* C29: when the credential lookup of Login, RefreshToken, ChangePassword or
\* DisableMFA fails with an error other than not-found, the request is
\* answered 500 and no principal is changed.
C29_LookupFailure ==
    [][/\ \A s \in Slots :
              \/ LoginLoadFails(s)
              \/ \E id \in Principals, in \in SessionChanges : ChangePasswordFails(s, id, in)
              \/ \E id \in Principals, m \in MfaCodes : DisableMFAFails(s, id, PasswordOne, m)
              => reqs'[s].resp.status = 500 /\ users' = users
       /\ (\E id \in Principals : \E p \in Session(id) : RefreshTokenFails(p))
              => verdict'.status = 500 /\ users' = users]_vars

----------------------------------------------------------------------------
(* Properties of failedAttempts, checked under SpecRace *)

\* C30: failedAttempts of a principal goes down only to 0 and only in the
\* step in which a Login whose password verified writes the row; no other
\* step lowers it.
C30_AttemptsOnlyResetOnMatch ==
    [][\A id \in DOMAIN users :
            users'[id].failedAttempts < users[id].failedAttempts =>
                /\ users'[id].failedAttempts = 0
                /\ \E s \in Slots : /\ reqs[s].op = "login" /\ reqs[s].pc = "store"
                                      /\ reqs'[s].pc = "done" /\ reqs[s].uid = id
                                      /\ reqs[s].pwOk]_vars

----------------------------------------------------------------------------
(* The order of Login's gates, checked under SpecOrder *)

\* the step in which request s enters Login: the limiter
EnterStep(s) ==
    /\ Free(s) /\ reqs'[s].op = "login"
    /\ \/ rl' # rl
       \/ BagCardinality(auditPending') > BagCardinality(auditPending)

\* the step in which request s asks the audit log and checks its body
DetectStep(s) == reqs[s].op = "login" /\ reqs[s].pc = "gate" /\ reqs'[s].pc # "gate"

\* the step in which request s looks the principal up
LookupStep(s) == reqs[s].op = "login" /\ reqs[s].pc = "load" /\ reqs'[s].pc # "load"

\* the step in which request s checks the password and the MFA code
PasswordStep(s) == reqs[s].op = "login" /\ reqs[s].pc = "store" /\ reqs'[s].pc = "done"

\* request s ends here with this status and text, setting no cookie
Stops(s, status, text) ==
    /\ reqs'[s].pc = "done"
    /\ reqs'[s].resp.status = status /\ reqs'[s].resp.text = text
    /\ reqs'[s].resp.cookies = {}

\* C31: Login evaluates its gates in the order rate limit, suspicious
\* activity, body and email, principal lookup, lock, password, MFA, and stops
\* at the first that fails; a request stopped by one of the first three has
\* read no principal record, none but the password step modifies one, and
\* cookies are set only after the MFA gate.  The email, the password and the
\* code each gate judges are the fields of the body after SanitizeInput,
\* which Login applies between the decoding of the body and ValidateEmail.
C31_GateOrder ==
    [][\A s \in Slots :
        /\ EnterStep(s) =>
              LET in == reqs'[s].in IN
              /\ users' = users /\ reqs'[s].uid = NoUser /\ reqs'[s].user = <<>>
              /\ IF ~Allow(rl, in.remoteAddr, now).ok
                 THEN Stops(s, 429, "Too many login attempts")
                 ELSE reqs'[s].pc = "gate"
        /\ DetectStep(s) =>
              LET in == reqs[s].in IN
              /\ users' = users /\ reqs'[s].uid = NoUser /\ reqs'[s].user = <<>>
              /\ \E queryOk \in BOOLEAN :
                    IF DetectSuspiciousActivity(in.remoteAddr, SuspiciousWindow, queryOk)
                    THEN Stops(s, 403, "Account temporarily restricted due to suspicious activity")
                    ELSE IF ~in.bodyOk
                    THEN Stops(s, 400, "Invalid request body")
                    ELSE IF ValidateEmail(SuppliedEmail(s)) # <<>>
                    THEN Stops(s, 400, "Invalid email format")
                    ELSE reqs'[s].pc = "load"
        /\ LookupStep(s) =>
              LET id == SelectByEmail(SuppliedEmail(s)) IN
              /\ users' = users
              /\ IF id = NoUser THEN Stops(s, 401, "Invalid credentials")
                 ELSE IF IsLocked(users[id]) THEN Stops(s, 403, "Account is temporarily locked")
                 ELSE reqs'[s].pc = "store" /\ reqs'[s].user = users[id]
        /\ PasswordStep(s) =>
              LET user == reqs[s].user
              IN IF ~CompareHashAndPassword(user.passwordHash, SuppliedPassword(s))
                 THEN Stops(s, 401, "Invalid credentials")
                 ELSE IF user.mfaEnabled /\ SuppliedCode(s) = <<>>
                 THEN Stops(s, 401, "MFA required")
                 ELSE IF user.mfaEnabled /\ ~TotpValidate(SuppliedCode(s), user.mfaSecret)
                 THEN Stops(s, 401, "Invalid MFA code")
                 ELSE /\ reqs'[s].resp.status = 200
                      /\ {c.name : c \in reqs'[s].resp.cookies} = {"access_token", "refresh_token"}]_vars

\* a request was answered 429 while the client also had more than
\* SuspiciousThreshold failures on record and the principal was locked
C31_Witness ==
    \E s \in Slots :
        /\ LoginDone(s) /\ reqs[s].resp.status = 429
        /\ reqs[s].uid = NoUser
        /\ DetectSuspiciousActivity(reqs[s].in.remoteAddr, SuspiciousWindow, TRUE)
        /\ \E id \in Principals : IsLocked(users[id])

----------------------------------------------------------------------------
(* The two lockout fields under concurrent Logins, checked under SpecConc *)

\* C32: in every reachable state, whatever the interleaving of concurrent
\* Logins, a principal's lockedUntil is set if and only if its
\* failedAttempts is at least 5.
C32_LockFieldsLinked ==
    \A id \in DOMAIN users :
        users[id].lockedUntil # NoTime <=> users[id].failedAttempts >= LockThreshold

\* two Logins read the row with four failures on it; one has stored the lock
\* and the other is still to write
C32_Witness ==
    \E s, r \in Slots :
        /\ s # r
        /\ LoginDone(s) /\ reqs[s].uid # NoUser
        /\ reqs[s].user.failedAttempts = LockThreshold - 1 /\ ~reqs[s].pwOk
        /\ reqs[r].op = "login" /\ reqs[r].pc = "store"
        /\ reqs[r].user.failedAttempts = LockThreshold - 1
        /\ users[reqs[s].uid].failedAttempts = LockThreshold
        /\ users[reqs[s].uid].lockedUntil # NoTime

----------------------------------------------------------------------------
(* The failure count under concurrent Logins, checked under SpecRace *)

\* C33: when Logins for one principal run concurrently, every password
\* mismatch raises the stored failedAttempts by exactly one: after k
\* mismatches with no verified match in between, failedAttempts = k.
C33_NoLostCount ==
    \A id \in DOMAIN users : users[id].failedAttempts = streak[id]

----------------------------------------------------------------------------
(* A lock and the requests in flight, checked under SpecConc *)

\* C34: once a Login has stored lockedUntil = T for a principal, no step
\* taken before T clears lockedUntil or leaves the principal unlocked, also
\* not the write of a request that read the row before the lock was stored.
C34_LockStands ==
    [][\A id \in DOMAIN users :
            (IsLocked(users[id]) /\ now' < users[id].lockedUntil)
                => /\ users'[id].lockedUntil # NoTime
                   /\ now' < users'[id].lockedUntil]_vars

----------------------------------------------------------------------------
(* Attempts made during a lock, checked under Spec *)

\* C35: a Login rejected because the account is locked leaves the
\* principal's failedAttempts and lockedUntil as the request found them.
C35_LockedAttemptNotCounted ==
    \A s \in Slots :
        (LoginDone(s) /\ reqs[s].resp = LockedResponse)
            => /\ users[reqs[s].uid].failedAttempts = reqs[s].user.failedAttempts
               /\ users[reqs[s].uid].lockedUntil = reqs[s].user.lockedUntil

\* a wrong password sent during the lock that the 5th mismatch had stored:
\* the count is still 5 and the lock still ends 15 minutes after that mismatch
C35_Witness ==
    \E s \in Slots :
        /\ LoginDone(s) /\ reqs[s].resp = LockedResponse
        /\ ~CompareHashAndPassword(reqs[s].user.passwordHash, SuppliedPassword(s))
        /\ streak[reqs[s].uid] = LockThreshold
        /\ users[reqs[s].uid].failedAttempts = LockThreshold
        /\ users[reqs[s].uid].lockedUntil = LockMinutes

----------------------------------------------------------------------------
(* After a lock has run out, checked under Spec *)

\* C36: a lock that has run out leaves failedAttempts at 5 or more (only a
\* verified password resets it), and a password mismatch on such a row
\* stores lockedUntil = now + 15 min at once, with the count raised by one.
C36_OneFailureRelocks ==
    [][/\ \A id \in DOMAIN users :
            (users[id].lockedUntil # NoTime /\ ~IsLocked(users[id]))
                => users[id].failedAttempts >= LockThreshold
       /\ \A s \in Slots :
            (MismatchStep(s) /\ reqs[s].user.lockedUntil # NoTime)
                => /\ users'[reqs[s].uid].lockedUntil = now + LockMinutes
                   /\ users'[reqs[s].uid].failedAttempts = reqs[s].user.failedAttempts + 1]_vars

\* the lock of the 5th mismatch ran out at minute 15; the next mismatch, at
\* that minute, was the 6th on record and locked the principal until minute 30
C36_Witness ==
    \E s \in Slots :
        /\ LoginDone(s) /\ reqs[s].uid # NoUser
        /\ ~reqs[s].pwOk /\ reqs[s].resp = GenericResponse
        /\ reqs[s].user.failedAttempts = LockThreshold
        /\ reqs[s].user.lockedUntil = LockMinutes /\ reqs[s].at = LockMinutes
        /\ users[reqs[s].uid].failedAttempts = LockThreshold + 1
        /\ users[reqs[s].uid].lockedUntil = LockMinutes + LockMinutes

----------------------------------------------------------------------------
(* What Logout leaves behind, checked under SpecLogout *)

\* the step in which Logout answers
LogoutStep == ~LoggedOut /\ LoggedOut'

\* the minute Logout answered, as its audit event records it
LogoutTime == reqs[1].events[1].ts

\* a token of the server's own making, issued before Logout answered and
\* not yet expired
Outlives(tok, secret, ttl) ==
    /\ tok.alg = "HS256" /\ tok.key = secret
    /\ tok.exp - ttl <= LogoutTime
    /\ now < tok.exp

\* after Logout, a token issued to a principal before it is accepted by
\* Authenticate and by RefreshToken at any time before its expiry
AcceptedAfterLogout ==
    \A p \in Kept :
        /\ (LoggedOut /\ Outlives(p.tok, JwtSecret, AccessTTL) /\ AuthenticateRequest(p))
                => (verdict'.ok /\ verdict'.sub = p.tok.sub)
        /\ (LoggedOut /\ Outlives(p.tok, RefreshSecret, RefreshTTL) /\ p.id \in DOMAIN users
                /\ RefreshToken(p))
                => (verdict'.ok /\ verdict'.sub = p.tok.sub)

\* C37, its second half: an access token and a refresh token issued before
\* Logout are still accepted by Authenticate and RefreshToken after Logout,
\* until their own expiry.
C37_AcceptedAfterLogout == [][AcceptedAfterLogout]_vars

----------------------------------------------------------------------------
(* The two rate limiters side by side, checked under SpecBoth *)

\* C38: for every limit and window and every sequence of requests served
\* one at a time, RateLimitMiddleware hands a request on exactly when
\* RateLimiter.Allow returns true for it.
C38_SameDecision ==
    hist # <<>> => (hist[Len(hist)].ok <=> mwReqs[1].status = 200)

\* both turned a request down after the middleware had counted a denied
\* request that Allow left uncounted
C38_Witness ==
    /\ hist # <<>> /\ ~hist[Len(hist)].ok /\ mwReqs[1].status = 429
    /\ LET ip == mwReqs[1].ip IN
         /\ ip \in DOMAIN rl.requests /\ ip \in DOMAIN mw.limiter
         /\ rl.requests[ip].count = rl.limit
         /\ mw.heap[mw.limiter[ip]].count > rl.limit + 1
         /\ \E k \in DOMAIN rl.requests : k \notin DOMAIN mw.limiter

----------------------------------------------------------------------------
(* Live CSRF tokens and the sweep, checked under SpecCSRF *)

\* token is in the table tokens, has not been accepted, and t is not after
\* its expiresAt
Live(tokens, token, t) ==
    /\ token \in DOMAIN tokens
    /\ ~tokens[token].used
    /\ ~(t > tokens[token].expiresAt)

\* C39: a generated token that has not yet been validated successfully is
\* accepted by ValidateToken at any time up to its expiresAt: no sweep and
\* no operation on another token removes or alters it while it is live, it
\* leaves that state only by being accepted, and a call for it is accepted.
C39_LiveTokenKept ==
    [][/\ GenerateToken => Live(csrf'.tokens, csrfIssued', now')
       /\ \A token \in DOMAIN csrf.tokens :
            Live(csrf.tokens, token, now') =>
                \/ Live(csrf'.tokens, token, now') /\ csrf'.tokens[token] = csrf.tokens[token]
                \/ /\ ValidateTokenCall(token)
                   /\ csrfLast' = [token |-> token, ok |-> TRUE]
       /\ \A token \in DOMAIN csrf.tokens :
            (Live(csrf.tokens, token, now) /\ ValidateTokenCall(token)) => csrfLast'.ok]_vars

\* token 1 was accepted in the last minute of its life, after a sweep that
\* had removed a younger token
C39_Witness ==
    /\ csrfLast = [token |-> 1, ok |-> TRUE]
    /\ 1 \in DOMAIN csrf.tokens /\ csrf.tokens[1].expiresAt = now
    /\ csrf.nextSweep > SweepInterval
    /\ csrfIssued >= 2 /\ 2 \notin DOMAIN csrf.tokens

----------------------------------------------------------------------------
(* The principal a protected handler acts on, checked under SpecCtx *)

\* C40: for every request that passes Authenticate, the id the protected
\* handler reads from the request context is present (the handler does not
\* fail reading it) and is the subject of the verified access token, which
\* names a principal.
C40_PrincipalPropagated ==
    \A s \in Slots :
        (reqs[s].op \in ProtectedOps /\ reqs[s].pc = "done" /\ reqs[s].resp.status # 401)
            => /\ reqs[s].resp.field # "panic"
               /\ reqs[s].uid \in Principals

====
